---------------------------- MODULE Spec2Model ----------------------------
(***************************************************************************)
(* Model of fetch_linear_data.py: the paginated fetch of issues, the       *)
(* record normalizer (parse_ticket, get_source_label), the statistics and  *)
(* the views of the dashboard, and the order in which main() writes its    *)
(* outputs.                                                                *)
(*                                                                         *)
(* Conventions.  Python strings are TLA+ strings.  A value that may be     *)
(* None is a sequence of length at most one: None is << >> and a present   *)
(* value v is << v >>.  A timestamp of the source is a record that holds   *)
(* its text and what datetime.fromisoformat and the Date of the browser    *)
(* read in it, in whole hours; see the section Time.                       *)
(***************************************************************************)
EXTENDS Integers, Sequences, FiniteSets, TLC

VARIABLES
    pc,               \* position of main(): which call comes next
    api_key,          \* LINEAR_API_KEY is set
    now,              \* the UTC instant of the run, in hours
    tz,               \* offset of the local time zone of the run, in hours
    projects,         \* result of fetch_projects
    all_issues,       \* fetch_linear_issues: records accumulated so far
    has_more,         \* fetch_linear_issues: loop condition
    cursor,           \* fetch_linear_issues: continuation cursor
    page,             \* fetch_linear_issues: page counter
    after,            \* the variable `after` of the last page request
    request_count,    \* number of page requests issued
    last_response,    \* the last response of the source to a page request
    served,           \* source: the records of all pages served, in order
    final_page,       \* source: first page served with hasNextPage false
    truncated,        \* the safety-limit message was printed
    raw_issues,       \* result of fetch_linear_issues
    parsed_tickets,   \* result of the parse_ticket comprehension
    customer_tickets, \* generate_statistics: the customer-attributed view
    stats,            \* result of generate_statistics
    priority_tickets, \* the Work in Queue view
    recent_tickets,   \* the Recent Tickets view
    csv_rows,         \* rows of data/customer_feedback.csv
    json_issues,      \* the issues array of data.json
    files,            \* names of the output files written so far
    error,            \* the exception that ended the run, if any
    labels_arg,       \* get_source_label: argument
    label_ret,        \* get_source_label: returned value
    page_state,       \* index.html in a browser: closed, loading or loaded
    allIssues,        \* script of index.html: the loaded dataset
    timeFilter,       \* value of the select timeFilter
    sourceFilter,     \* value of the select sourceFilter
    featureChart,     \* the chart: its labels with their counts, in order
    chart_now,        \* new Date() of the last updateChart
    chart_zone,       \* time zone of the browser at the last updateChart
    data_fetches      \* number of fetch('data.json') calls of the page

run_vars == << pc, api_key, now, tz, projects, all_issues, has_more, cursor,
               page, after, request_count, last_response, served, final_page,
               truncated, raw_issues, parsed_tickets, customer_tickets, stats,
               priority_tickets, recent_tickets, csv_rows, json_issues, files,
               error >>

browser_vars == << page_state, allIssues, timeFilter, sourceFilter, featureChart,
                   chart_now, chart_zone, data_fetches >>

vars == << run_vars, labels_arg, label_ret, browser_vars >>

---------------------------------------------------------------------------
(* Bounds of the model *)

\* longest label list given to get_source_label
MaxLabels == 2

\* most records the source serves in one traversal
MaxIssues == 2

\* most records in one page (the request asks for at most 250)
MaxPageLen == 2

\* page requests after which the model stops following a traversal
MaxRequests == 22

\* longest ticket list given to the views of the dashboard
MaxTickets == 2

---------------------------------------------------------------------------
(* Python values and string operations *)

None == << >>

Some(v) == << v >>

\* the upper-case letters below U+0100: A to Z, and U+00C0 to U+00DE without
\* the multiplication sign U+00D7
UpperCase == "ABCDEFGHIJKLMNOPQRSTUVWXYZÀÁÂÃÄÅÆÇÈÉÊËÌÍÎÏÐÑÒÓÔÕÖØÙÚÛÜÝÞ"

\* what str.lower() makes of them, place by place
LowerCase == "abcdefghijklmnopqrstuvwxyzàáâãäåæçèéêëìíîïðñòóôõöøùúûüýþ"

CharAt(s, i) == SubSeq(s, i, i)

\* each upper-case letter with its lower-case letter
CasePairs ==
    { << CharAt(UpperCase, i), CharAt(LowerCase, i) >> : i \in 1..Len(UpperCase) }

lower_char(c) ==
    IF \E pair \in CasePairs : pair[1] = c
    THEN (CHOOSE pair \in CasePairs : pair[1] = c)[2]
    ELSE c

\* the characters of a string, one by one
chars(s) == [i \in 1..Len(s) |-> CharAt(s, i)]

\* str.lower(); the result is kept as the sequence of its characters
lower(s) == [i \in 1..Len(s) |-> lower_char(CharAt(s, i))]

\* Python's  sub in s  on strings
Contains(sub, s) ==
    \E i \in 1..(Len(s) - Len(sub) + 1) : SubSeq(s, i, i + Len(sub) - 1) = sub

\* Python's  sub in s  when s is given as the sequence of its characters
InChars(sub, cs) ==
    \E i \in 1..(Len(cs) - Len(sub) + 1) :
        \A k \in 1..Len(sub) : cs[i + k - 1] = CharAt(sub, k)

Range(f) == { f[i] : i \in DOMAIN f }

SeqsUpTo(S, n) == UNION { [1..k -> S] : k \in 0..n }

\* the elements of seq at the indices in keep, in their order: a list
\* comprehension with a condition
PickIndices(seq, keep) ==
    [p \in 1..Cardinality(keep) |->
        seq[CHOOSE i \in keep : Cardinality({ j \in keep : j < i }) = p - 1]]

\* comparison of two tuples of two numbers
PairLess(a, b) == a[1] < b[1] \/ (a[1] = b[1] /\ a[2] < b[2])

\* list.sort / sorted with a key: the stable arrangement of seq by ascending
\* keys, keys[i] being the key of seq[i]
StableSortByKey(seq, keys) ==
    LET n == Len(seq)
        pos(i) == 1 + Cardinality({ j \in 1..n :
                          \/ PairLess(keys[j], keys[i])
                          \/ keys[j] = keys[i] /\ j < i })
    IN  [p \in 1..n |-> seq[CHOOSE i \in 1..n : pos(i) = p]]

---------------------------------------------------------------------------
(* get_source_label *)

GenericChannelKeywords == <<"email", "phone", "slack", "in person", "in-person">>

\* The if/elif chain applied to one lower-cased label; None when no branch
\* returns.
label_branch(label) ==
    IF InChars("zendesk", label) THEN Some("zendesk")
    ELSE IF InChars("csat", label) THEN Some("CSAT")
    ELSE IF InChars("sales", label) THEN Some("sales")
    ELSE IF InChars("partner success", label) \/ InChars("partner-success", label)
         THEN Some("partner success")
    ELSE IF InChars("uxr", label) THEN Some("UXR")
    ELSE IF \E k \in DOMAIN GenericChannelKeywords :
                InChars(GenericChannelKeywords[k], label)
         THEN Some("other")
    ELSE None

\* get_source_label without the lower() of line 248
get_source_label_case_sensitive(labels) ==
    IF labels = None \/ labels[1] = << >> THEN "unlabeled"
    ELSE LET label_names == [i \in DOMAIN labels[1] |-> chars(labels[1][i].name)]
             hits == { i \in DOMAIN label_names : label_branch(label_names[i]) # None }
         IN  IF hits = {} THEN "unlabeled"
             ELSE label_branch(label_names[CHOOSE i \in hits : \A j \in hits : i <= j])[1]

\* labels is None or Some(list of [name |-> string]).
get_source_label(labels) ==
    IF labels = None \/ labels[1] = << >> THEN "unlabeled"
    ELSE LET label_names == [i \in DOMAIN labels[1] |-> lower(labels[1][i].name)]
             hits == { i \in DOMAIN label_names : label_branch(label_names[i]) # None }
         IN  IF hits = {} THEN "unlabeled"
             ELSE label_branch(label_names[CHOOSE i \in hits : \A j \in hits : i <= j])[1]

---------------------------------------------------------------------------
(* Regular expressions of parse_ticket, on strings *)

\* The characters below U+0100 that \s and str.strip() take as white space:
\* space, \t, \n, \r, \f, then \v, U+001C to U+001F, U+0085 and U+00A0
\* (written as the characters themselves; a string here cannot hold the
\* white space above U+00FF, such as U+2003, so no input holds it either).
WhiteSpace ==
    { " ", "\t", "\n", "\r", "\f", "",
      "", "", "", "", "", " " }

IsSpace(c) == c \in WhiteSpace

IsDigit(c) == c \in {"0", "1", "2", "3", "4", "5", "6", "7", "8", "9"}

MinOf(S) == CHOOSE m \in S : \A n \in S : m <= n

MaxOf(S) == CHOOSE m \in S : \A n \in S : m >= n

\* positions at which the literal text lit occurs in s
Occurrences(lit, s) ==
    { i \in 1..(Len(s) - Len(lit) + 1) : SubSeq(s, i, i + Len(lit) - 1) = lit }

\* str.strip()
strip(s) ==
    LET keep == { i \in 1..Len(s) : ~IsSpace(CharAt(s, i)) }
    IN  IF keep = {} THEN "" ELSE SubSeq(s, MinOf(keep), MaxOf(keep))

\* re.search(marker \s*([^\n]+), s): group 1 of the leftmost match, or None.
\* \s* is greedy and gives characters back until [^\n]+ finds a character
\* that is not a newline.
line_field_search(marker, s) ==
    LET group_starts(i) ==
            { g \in (i + Len(marker))..Len(s) :
                /\ \A k \in (i + Len(marker))..(g - 1) : IsSpace(CharAt(s, k))
                /\ CharAt(s, g) # "\n" }
        matches == { i \in Occurrences(marker, s) : group_starts(i) # {} }
    IN  IF matches = {} THEN None
        ELSE LET g  == MaxOf(group_starts(MinOf(matches)))
                 nl == { k \in g..Len(s) : CharAt(s, k) = "\n" }
             IN  Some(SubSeq(s, g, IF nl = {} THEN Len(s) ELSE MinOf(nl) - 1))

\* end of a match of \s*\([^)]*@[^)]*\) that starts at p, or 0
email_suffix_end(s, p) ==
    LET rest == { q \in p..Len(s) : ~IsSpace(CharAt(s, q)) }
    IN  IF rest = {} THEN 0
        ELSE LET q      == MinOf(rest)
                 closes == { r \in (q + 1)..Len(s) : CharAt(s, r) = ")" }
             IN  IF CharAt(s, q) # "(" \/ closes = {} THEN 0
                 ELSE IF \E k \in (q + 1)..(MinOf(closes) - 1) : CharAt(s, k) = "@"
                      THEN MinOf(closes) ELSE 0

\* re.sub(r'\s*\([^)]*@[^)]*\)', '', s) from position p on: the text up to
\* the leftmost match, then the same after that match
RECURSIVE sub_email_suffix(_, _)
sub_email_suffix(s, p) ==
    LET starts == { q \in p..Len(s) : email_suffix_end(s, q) > 0 }
    IN  IF starts = {} THEN SubSeq(s, p, Len(s))
        ELSE SubSeq(s, p, MinOf(starts) - 1)
                 \o sub_email_suffix(s, email_suffix_end(s, MinOf(starts)) + 1)

\* a match of \[([^\]]+)\]\([^)]+\) that starts at p: <<end of label, end of
\* match>>, or << >>
markdown_link_at(s, p) ==
    LET brackets == { e \in (p + 1)..Len(s) : CharAt(s, e) = "]" }
    IN  IF CharAt(s, p) # "[" \/ brackets = {} THEN << >>
        ELSE LET e      == MinOf(brackets)
                 closes == { r \in (e + 2)..Len(s) : CharAt(s, r) = ")" }
             IN  IF e = p + 1 \/ e + 1 > Len(s) \/ closes = {} THEN << >>
                 ELSE IF CharAt(s, e + 1) # "(" \/ MinOf(closes) = e + 2 THEN << >>
                      ELSE << e, MinOf(closes) >>

\* re.sub(r'\[([^\]]+)\]\([^)]+\)', r'\1', s) from position p on
RECURSIVE sub_markdown_link(_, _)
sub_markdown_link(s, p) ==
    LET starts == { q \in p..Len(s) : markdown_link_at(s, q) # << >> }
    IN  IF starts = {} THEN SubSeq(s, p, Len(s))
        ELSE LET q == MinOf(starts)
             IN  SubSeq(s, p, q - 1)
                     \o SubSeq(s, q + 1, markdown_link_at(s, q)[1] - 1)
                     \o sub_markdown_link(s, markdown_link_at(s, q)[2] + 1)

\* index of the first character at or after p that is not white space
\* (Len(s) + 1 when there is none)
skip_space(s, p) ==
    MinOf({ q \in p..(Len(s) + 1) : q = Len(s) + 1 \/ ~IsSpace(CharAt(s, q)) })

\* re.search(r'\*\*Survey Wave:\*\*\s*(Wave\s*)?(\d+)', s): group 2 of the
\* leftmost match, or None
wave_search(s) ==
    LET marker == "**Survey Wave:**"
        digits_from(i) ==
            LET g == skip_space(s, i + Len(marker))
            IN  IF g + 3 <= Len(s) /\ SubSeq(s, g, g + 3) = "Wave"
                THEN skip_space(s, g + 4) ELSE g
        digit_run(d) ==
            { e \in d..Len(s) : \A k \in d..e : IsDigit(CharAt(s, k)) }
        matches == { i \in Occurrences(marker, s) : digit_run(digits_from(i)) # {} }
    IN  IF matches = {} THEN None
        ELSE LET d == digits_from(MinOf(matches))
             IN  Some(SubSeq(s, d, MaxOf(digit_run(d))))

---------------------------------------------------------------------------
(* parse_ticket *)

\* dict.get(key) and dict.get(key, default) on a raw record: a record whose
\* domain is the set of keys present
get(d, k) == IF k \in DOMAIN d THEN d[k] ELSE None

get_default(d, k, default) == IF k \in DOMAIN d THEN d[k] ELSE default

\* re.search(r'\*\*Quote:\*\*\s*["]([^"]*)["]', s): group 1 of the leftmost
\* match, or None.  The class of the code holds the double quote four times.
quoted_search(s) ==
    LET marker == "**Quote:**"
        open_at(i) == skip_space(s, i + Len(marker))
        closes(i) == { r \in (open_at(i) + 1)..Len(s) : CharAt(s, r) = "\"" }
        matches == { i \in Occurrences(marker, s) :
                        /\ open_at(i) <= Len(s)
                        /\ CharAt(s, open_at(i)) = "\""
                        /\ closes(i) # {} }
    IN  IF matches = {} THEN None
        ELSE LET i == MinOf(matches)
             IN  Some(SubSeq(s, open_at(i) + 1, MinOf(closes(i)) - 1))

\* the lookahead (?=\n\n|\*\*|$) at position p, without re.MULTILINE: $ holds
\* at the end of the string and before a newline that ends the string
quote_end_ahead(s, p) ==
    \/ p = Len(s) + 1
    \/ p = Len(s) /\ CharAt(s, p) = "\n"
    \/ p + 1 <= Len(s) /\ SubSeq(s, p, p + 1) \in {"\n\n", "**"}

\* re.search(r'\*\*Quote:\*\*\s*(.+?)(?=\n\n|\*\*|$)', s, re.DOTALL): group 1
\* of the leftmost match, or None.  \s* is greedy and gives its last
\* character back when nothing follows the white space; .+? takes at least
\* one character, newlines too, and as few as the lookahead allows.
unquoted_search(s) ==
    LET marker == "**Quote:**"
        matches == { i \in Occurrences(marker, s) : i + Len(marker) <= Len(s) }
    IN  IF matches = {} THEN None
        ELSE LET g0 == skip_space(s, MinOf(matches) + Len(marker))
                 g  == IF g0 > Len(s) THEN Len(s) ELSE g0
                 e  == MinOf({ q \in g..Len(s) : quote_end_ahead(s, q + 1) })
             IN  Some(SubSeq(s, g, e))

\* quote[:500]
QuoteLimit == 500

\* lines 277-279, 293 and 379: the quoted form first, then the unquoted one
extract_quote(description) ==
    LET first_match == quoted_search(description)
        quote_match == IF first_match # None THEN first_match
                       ELSE unquoted_search(description)
        quote == IF quote_match = None THEN "" ELSE strip(quote_match[1])
    IN  IF Len(quote) > QuoteLimit THEN SubSeq(quote, 1, QuoteLimit) ELSE quote

extract_customer(description) ==
    LET customer_match == line_field_search("**Customer:**", description)
    IN  IF customer_match = None THEN None
        ELSE Some(strip(sub_markdown_link(
                         sub_email_suffix(strip(customer_match[1]), 1), 1)))

extract_wave(description) ==
    LET wave_match == wave_search(description)
    IN  IF wave_match = None THEN None ELSE Some("Wave " \o wave_match[1])

extract_source(description) ==
    LET source_match == line_field_search("**Source:**", description)
    IN  IF source_match = None THEN None ELSE Some(strip(source_match[1]))

\* source_type with the Support/Email rule tried before the Beta rule
source_type_support_first(source) ==
    IF source = None \/ source = Some("") THEN "Unknown"
    ELSE LET src == source[1]
         IN  IF Contains("CSAT", src) \/ Contains("Wave", src) THEN "CSAT Survey"
             ELSE IF Contains("Usage", src) \/ Contains("Satisfaction", src)
                  THEN "Usage Survey"
             ELSE IF Contains("Early Adopter", src) \/ Contains("Qualitative Research", src)
                  THEN "Early Adopter Research"
             ELSE IF Contains("Support", src) \/ Contains("Email", src)
                  THEN "Direct Support"
             ELSE IF Contains("Beta", src) THEN "Beta Testing"
             ELSE IF Contains("Internal", src) THEN "Internal"
             ELSE "Unknown"

\* source is None or Some(string)
source_type_of(source) ==
    IF source = None \/ source = Some("") THEN "Unknown"
    ELSE LET src == source[1]
         IN  IF Contains("CSAT", src) \/ Contains("Wave", src) THEN "CSAT Survey"
             ELSE IF Contains("Usage", src) \/ Contains("Satisfaction", src)
                  THEN "Usage Survey"
             ELSE IF Contains("Early Adopter", src) \/ Contains("Qualitative Research", src)
                  THEN "Early Adopter Research"
             ELSE IF Contains("Beta", src) THEN "Beta Testing"
             ELSE IF Contains("Support", src) \/ Contains("Email", src)
                  THEN "Direct Support"
             ELSE IF Contains("Internal", src) THEN "Internal"
             ELSE "Unknown"

\* project_name and parent_title are None or Some(string)
\* project_name if project_name is not None else "Unknown"
feature_area_default_not_none(project_name) ==
    IF project_name # None THEN project_name[1] ELSE "Unknown"

\* project_name or "Unknown"
feature_area_default(project_name) ==
    IF project_name # None /\ project_name # Some("") THEN project_name[1]
    ELSE "Unknown"

\* feature_area with the dial rule tried before the hardware rule
feature_area_dial_first(project_name, parent_title) ==
    IF parent_title = None \/ parent_title = Some("")
    THEN feature_area_default(project_name)
    ELSE LET parent_lower == lower(parent_title[1])
         IN  IF \/ InChars("smart home", parent_lower)
                \/ InChars("homekit", parent_lower)
                \/ InChars("integration", parent_lower)
             THEN "Smart Home Integrations"
             ELSE IF \/ InChars("thermal", parent_lower)
                     \/ InChars("comfort", parent_lower)
                     \/ InChars("thermware", parent_lower)
                  THEN "Thermals & Comfort"
             ELSE IF InChars("schedule", parent_lower) THEN "Schedules"
             ELSE IF InChars("app", parent_lower) /\ InChars("ux", parent_lower)
                  THEN "All things App"
             ELSE IF InChars("dial", parent_lower) THEN "All things Dial"
             ELSE IF InChars("hardware", parent_lower) THEN "Hardware Requests"
             ELSE IF InChars("energy", parent_lower) \/ InChars("usage", parent_lower)
                  THEN "Energy + Usage"
             ELSE IF InChars("auto-away", parent_lower) \/ InChars("away", parent_lower)
                  THEN "Auto-Away"
             ELSE IF InChars("mode", parent_lower) \/ InChars("control", parent_lower)
                  THEN "Modes & Controls"
             ELSE IF InChars("lighting", parent_lower) \/ InChars("light", parent_lower)
                  THEN "Lighting"
             ELSE IF InChars("device", parent_lower) \/ InChars("pairing", parent_lower)
                  THEN "Device management & operation"
             ELSE IF InChars("partner", parent_lower) \/ InChars("tooling", parent_lower)
                  THEN "Partner Tooling"
             ELSE feature_area_default(project_name)

feature_area_of(project_name, parent_title) ==
    IF parent_title = None \/ parent_title = Some("")
    THEN feature_area_default(project_name)
    ELSE LET parent_lower == lower(parent_title[1])
         IN  IF \/ InChars("smart home", parent_lower)
                \/ InChars("homekit", parent_lower)
                \/ InChars("integration", parent_lower)
             THEN "Smart Home Integrations"
             ELSE IF \/ InChars("thermal", parent_lower)
                     \/ InChars("comfort", parent_lower)
                     \/ InChars("thermware", parent_lower)
                  THEN "Thermals & Comfort"
             ELSE IF InChars("schedule", parent_lower) THEN "Schedules"
             ELSE IF InChars("app", parent_lower) /\ InChars("ux", parent_lower)
                  THEN "All things App"
             ELSE IF InChars("hardware", parent_lower) THEN "Hardware Requests"
             ELSE IF InChars("dial", parent_lower) THEN "All things Dial"
             ELSE IF InChars("energy", parent_lower) \/ InChars("usage", parent_lower)
                  THEN "Energy + Usage"
             ELSE IF InChars("auto-away", parent_lower) \/ InChars("away", parent_lower)
                  THEN "Auto-Away"
             ELSE IF InChars("mode", parent_lower) \/ InChars("control", parent_lower)
                  THEN "Modes & Controls"
             ELSE IF InChars("lighting", parent_lower) \/ InChars("light", parent_lower)
                  THEN "Lighting"
             ELSE IF InChars("device", parent_lower) \/ InChars("pairing", parent_lower)
                  THEN "Device management & operation"
             ELSE IF InChars("partner", parent_lower) \/ InChars("tooling", parent_lower)
                  THEN "Partner Tooling"
             ELSE feature_area_default(project_name)

\* bool(customer)
has_customer_feedback_truthy(customer) == customer # None /\ customer # Some("")

\* customer is not None
has_customer_feedback_of(customer) == customer # None

\* ticket.get('labels', {}).get('nodes', []) raises AttributeError when the
\* key labels is present with the value None
parse_ticket_raises(ticket) ==
    "labels" \in DOMAIN ticket /\ ticket["labels"] = None

parse_ticket(ticket, issues) ==
    LET description  == IF get(ticket, "description") = None THEN ""
                        ELSE get(ticket, "description")[1]
        customer     == extract_customer(description)
        source       == extract_source(description)
        project      == get(ticket, "project")
        project_name == IF project = None THEN None ELSE Some(project[1].name)
        parent       == get(ticket, "parent")
        parent_id         == IF parent = None THEN None ELSE Some(parent[1].id)
        parent_identifier == IF parent = None THEN None ELSE Some(parent[1].identifier)
        parent_title      == IF parent = None THEN None ELSE Some(parent[1].title)
        nodes        == IF "labels" \in DOMAIN ticket
                        THEN get_default(ticket["labels"][1], "nodes", Some(<< >>))
                        ELSE Some(<< >>)
    IN  [ ticket_id      |-> ticket["identifier"],
          title          |-> ticket["title"],
          project        |-> IF project_name # None /\ project_name # Some("")
                             THEN project_name[1] ELSE "No Project",
          epic           |-> IF /\ parent_identifier # None
                                /\ parent_identifier # Some("")
                                /\ parent_title # None
                                /\ parent_title # Some("")
                             THEN parent_identifier[1] \o ": " \o parent_title[1]
                             ELSE "No Epic",
          epic_id        |-> IF parent_identifier # None THEN parent_identifier[1]
                             ELSE "",
          parent_id      |-> parent_id,
          feature_area   |-> feature_area_of(project_name, parent_title),
          customer       |-> customer,
          wave           |-> extract_wave(description),
          source_type    |-> source_type_of(source),
          source_detail  |-> source,
          source_label   |-> get_source_label(nodes),
          priority       |-> get_default(ticket, "priorityLabel", Some("No Priority")),
          priority_value |-> get_default(ticket, "priority", Some(0)),
          quote          |-> extract_quote(description),
          status         |-> ticket["state"].name,
          state_type     |-> ticket["state"].type,
          created_at     |-> ticket["createdAt"],
          updated_at     |-> ticket["updatedAt"],
          completed_at   |-> get(ticket, "completedAt"),
          has_customer_feedback |-> has_customer_feedback_of(customer),
          url            |-> "https://linear.app/quiltair/issue/" \o ticket["identifier"] ]

---------------------------------------------------------------------------
(* Time *)

\* A timestamp of the source is a text.  Its record keeps
\*   text         the text;
\*   h            the instant the source holds for it, in whole hours since
\*                2025-01-01T00:00Z;
\*   iso          whether datetime.fromisoformat(text.replace('Z', '+00:00'))
\*                accepts the text, and if so
\*   wall         the date and time written in the text, in hours, which is
\*                what .replace(tzinfo=None) keeps, and
\*   offset       the UTC offset written in the text, in hours, or None for
\*                a text without one;
\*   date         whether new Date(text) of the browser is a valid date, and
\*                if so
\*   date_wall    the date and time the browser reads in the text, and
\*   date_offset  the UTC offset it reads, or None when it takes the text
\*                as local time.

two_digits(n) ==
    CharAt("0123456789", (n \div 10) + 1) \o CharAt("0123456789", (n % 10) + 1)

\* days before the first of each month, in a year of 365 days
DaysBeforeMonth == << 0, 31, 59, 90, 120, 151, 181, 212, 243, 273, 304, 334 >>

\* the text the source writes for the hour n (2025 to 2027, no leap year):
\* YYYY-MM-DDTHH:00:00.000Z
IsoText(n) ==
    LET day_number == n \div 24
        year       == 25 + (day_number \div 365)
        year_day   == day_number % 365
        month      == MaxOf({ m \in 1..12 : DaysBeforeMonth[m] <= year_day })
    IN  "20" \o two_digits(year) \o "-" \o two_digits(month) \o "-"
             \o two_digits(year_day - DaysBeforeMonth[month] + 1)
             \o "T" \o two_digits(n % 24) \o ":00:00.000Z"

Ts(n) ==
    [ text |-> IsoText(n), h |-> n,
      iso  |-> TRUE, wall |-> n, offset |-> Some(0),
      date |-> TRUE, date_wall |-> n, date_offset |-> Some(0) ]

\* a text that neither fromisoformat nor Date takes
BadTs ==
    [ text |-> "garbage", h |-> 0,
      iso  |-> FALSE, wall |-> 0, offset |-> None,
      date |-> FALSE, date_wall |-> 0, date_offset |-> None ]

\* A time zone of the browser: its UTC offset outside and inside daylight
\* saving time, in hours, and the instants between which daylight saving
\* time holds
UtcZone == [std |-> 0, dst |-> 0, dst_from |-> 0, dst_till |-> 0]

\* America/New_York in 2026: from 8 March 07:00Z to 1 November 06:00Z
NewYorkZone == [std |-> 0 - 5, dst |-> 0 - 4, dst_from |-> 10351, dst_till |-> 16062]

zone_offset(zone, instant) ==
    IF zone.dst_from <= instant /\ instant < zone.dst_till THEN zone.dst ELSE zone.std

\* the instant of a local date and time: a time the clocks show twice is
\* the earlier instant, a time they skip is read with the offset before the
\* change
local_to_utc(wall, zone) ==
    IF zone_offset(zone, wall - zone.dst) = zone.dst
    THEN wall - zone.dst
    ELSE wall - zone.std

\* The characters from U+0001 to U+00FF in the order of their code points,
\* without the grave accent U+0060, which a string here cannot hold.
CodePointOrder == "\t\n\f\r !\"#$%&'()*+,-./0123456789:;<=>?@ABCDEFGHIJKLMNOPQRSTUVWXYZ[\\]^_abcdefghijklmnopqrstuvwxyz{|}~ ¡¢£¤¥¦§¨©ª«¬­®¯°±²³´µ¶·¸¹º»¼½¾¿ÀÁÂÃÄÅÆÇÈÉÊËÌÍÎÏÐÑÒÓÔÕÖ×ØÙÚÛÜÝÞßàáâãäåæçèéêëìíîïðñòóôõö÷øùúûüýþÿ"

\* each character of the table with its place in it
CodePointRanks ==
    { << CharAt(CodePointOrder, i), i >> : i \in 1..Len(CodePointOrder) }

\* the place of a character in the order of the code points; the one
\* character outside the table that a string here can hold is U+0000
code_point_rank(c) ==
    IF \E entry \in CodePointRanks : entry[1] = c
    THEN (CHOOSE entry \in CodePointRanks : entry[1] = c)[2]
    ELSE 0

\* index of the first position from k on at which a and b differ, or 0 when
\* one of them ends before
RECURSIVE first_difference(_, _, _)
first_difference(a, b, k) ==
    IF k > Len(a) \/ k > Len(b) THEN 0
    ELSE IF CharAt(a, k) # CharAt(b, k) THEN k
    ELSE first_difference(a, b, k + 1)

\* a < b on str: by the code points of the first characters that differ,
\* a proper prefix before the longer text
str_less(a, b) ==
    /\ a # b
    /\ LET d == first_difference(a, b, 1)
       IN  IF d = 0 THEN Len(a) < Len(b)
           ELSE code_point_rank(CharAt(a, d)) < code_point_rank(CharAt(b, d))

\* sorted(seq, key=..., reverse=True) with texts as keys: descending, and
\* elements with equal keys keep their order
SortByTextDescending(seq, keys) ==
    LET n      == Len(seq)
        \* the pairs <<place in the result, index in seq>>
        places == { << 1 + Cardinality({ j \in 1..n :
                             \/ keys[j] = keys[i] /\ j < i
                             \/ str_less(keys[i], keys[j]) }), i >> : i \in 1..n }
    IN  [p \in 1..n |-> seq[(CHOOSE place \in places : place[1] = p)[2]]]

\* sorted(seq, key=...) with texts as keys: ascending
SortByTextAscending(seq, keys) ==
    LET n      == Len(seq)
        \* the pairs <<place in the result, index in seq>>
        places == { << 1 + Cardinality({ j \in 1..n :
                             \/ keys[j] = keys[i] /\ j < i
                             \/ str_less(keys[j], keys[i]) }), i >> : i \in 1..n }
    IN  [p \in 1..n |-> seq[(CHOOSE place \in places : place[1] = p)[2]]]

\* datetime.now() - timedelta(days=365), formatted with the suffix Z: the
\* local wall-clock time of the run is sent as if it were UTC
created_after(now_utc, tz_offset) == now_utc + tz_offset - 365 * 24

\* datetime.now(None).replace(tzinfo=None) - timedelta(days=7): the class
\* datetime has no attribute UTC, so this is the local wall-clock time
seven_days_ago(now_utc, tz_offset) == now_utc + tz_offset - 7 * 24

---------------------------------------------------------------------------
(* fetch_projects and fetch_linear_issues *)

PageLimit == 20

HttpStatuses == {200, 204, 401, 500}

\* response.status_code != 200
projects_request_failed(status) == status # 200

\* a variant that lets client errors through: status_code >= 500
issues_request_failed_5xx(status) == status >= 500

\* response.status_code != 200
issues_request_failed(status) == status # 200

\* a variant with page >= 20
limit_reached_one_early(next_page) == next_page >= PageLimit

\* page > 20, tested after page += 1
limit_reached(next_page) == next_page > PageLimit

ActiveStatusNames == {"In Progress", "Todo", "In Review"}

\* the filter argument of the issues query: what the request asks the source
\* to leave out.  The program applies no such test to the records it gets.
issues_filter(issue, now_utc, tz_offset) ==
    /\ issue["state"].type \notin {"canceled"}
    /\ \/ issue["createdAt"].iso
            /\ issue["createdAt"].h >= created_after(now_utc, tz_offset)
       \/ issue["state"].name \in ActiveStatusNames

\* the condition of the comprehension that drops converted epics
issue_converted(issue) ==
    \/ InChars("converted to project", lower(issue["title"]))
    \/ /\ get(issue, "description") # None
       /\ get(issue, "description") # Some("")
       /\ InChars("converted to project", lower(get(issue, "description")[1]))

filter_converted(issues) ==
    PickIndices(issues, { i \in DOMAIN issues : ~issue_converted(issues[i]) })

---------------------------------------------------------------------------
(* generate_csv, generate_json, generate_statistics *)

CsvFieldNames ==
    { "ticket_id", "title", "project", "epic", "epic_id", "feature_area",
      "customer", "wave", "source_type", "source_detail", "source_label",
      "priority", "quote", "status", "created_at", "updated_at", "url" }

csv_row(ticket) == [k \in CsvFieldNames |-> ticket[k]]

json_issue(t) ==
    [ id            |-> t.ticket_id,
      title         |-> t.title,
      url           |-> t.url,
      createdAt     |-> t.created_at,
      updatedAt     |-> t.updated_at,
      completedAt   |-> t.completed_at,
      customer      |-> t.customer,
      wave          |-> t.wave,
      project       |-> t.project,
      featureArea   |-> t.feature_area,
      sourceLabel   |-> t.source_label,
      priority      |-> t.priority,
      priorityValue |-> t.priority_value,
      state         |-> t.status,
      stateType     |-> t.state_type ]

\* dict(Counter(keys)): pairs <<key, count>> in order of first occurrence
Counter(keys) ==
    LET firsts == { i \in DOMAIN keys : \A j \in 1..(i - 1) : keys[j] # keys[i] }
        nth(p) == CHOOSE i \in firsts : Cardinality({ j \in firsts : j < i }) = p - 1
    IN  [p \in 1..Cardinality(firsts) |->
            << keys[nth(p)],
               Cardinality({ j \in DOMAIN keys : keys[j] = keys[nth(p)] }) >>]

customer_tickets_of(all_tickets) ==
    PickIndices(all_tickets,
                { i \in DOMAIN all_tickets : all_tickets[i].has_customer_feedback })

\* dict(sorted(counts.items(), key=lambda x: x[1], reverse=True))
sort_by_count(counts) ==
    StableSortByKey(counts, [i \in DOMAIN counts |-> << 0 - counts[i][2], 0 >>])

\* last_updated is datetime.now().isoformat(): the local wall-clock time of
\* the run, without offset: YYYY-MM-DDTHH:00:00
generate_statistics(all_tickets, now_utc, tz_offset) ==
    LET cust  == customer_tickets_of(all_tickets)
        waves == PickIndices(cust, { i \in DOMAIN cust :
                                 cust[i].wave # None /\ cust[i].wave # Some("") })
    IN  [ total_tickets    |-> Len(cust),
          unique_customers |->
              Cardinality({ cust[i].customer : i \in
                  { j \in DOMAIN cust : cust[j].customer # None
                                        /\ cust[j].customer # Some("") } }),
          by_feature_area  |->
              sort_by_count(Counter([i \in DOMAIN all_tickets |->
                                         all_tickets[i].feature_area])),
          by_source_label  |-> Counter([i \in DOMAIN cust |-> cust[i].source_label]),
          by_wave          |-> Counter([i \in DOMAIN waves |-> waves[i].wave]),
          by_source_type   |-> Counter([i \in DOMAIN cust |-> cust[i].source_type]),
          by_priority      |-> Counter([i \in DOMAIN cust |-> cust[i].priority]),
          last_updated     |-> SubSeq(IsoText(now_utc + tz_offset), 1, 19) ]

---------------------------------------------------------------------------
(* generate_html_dashboard *)

\* the loop that builds priority_tickets; completed_date is the date and
\* time as written in completed_at, its offset dropped by
\* replace(tzinfo=None)
in_queue(ticket, now_utc, tz_offset) ==
    \/ ticket.status \in ActiveStatusNames
    \/ /\ ticket.status = "Done"
       /\ ticket.completed_at # None
       /\ ticket.completed_at[1].iso
       /\ ticket.completed_at[1].wall >= seven_days_ago(now_utc, tz_offset)

queue_of(all_tickets, now_utc, tz_offset) ==
    PickIndices(all_tickets, { i \in DOMAIN all_tickets :
                                 in_queue(all_tickets[i], now_utc, tz_offset) })

status_order(status) ==
    CASE status = "In Progress" -> 0
      [] status = "Todo"        -> 1
      [] status = "In Review"   -> 2
      [] status = "Done"        -> 3
      [] OTHER                  -> 999

\* the key of the sort raises ValueError on a text fromisoformat rejects
queue_sort_raises(tickets) == \E i \in DOMAIN tickets : ~tickets[i].updated_at.iso

\* (status_order.get(status, 999), -timestamp of updated_at): timestamp()
\* is the instant of an aware datetime; a text without offset is taken as
\* local time of the run
queue_key(ticket, tz_offset) ==
    LET updated   == ticket.updated_at
        timestamp == IF updated.offset = None
                     THEN updated.wall - tz_offset
                     ELSE updated.wall - updated.offset[1]
    IN  << status_order(ticket.status), 0 - timestamp >>

sort_queue(tickets, tz_offset) ==
    StableSortByKey(tickets, [i \in DOMAIN tickets |-> queue_key(tickets[i], tz_offset)])

\* the key x['created_at']: the text of the timestamp
recent_key(ticket) == ticket.created_at.text

RecentLimit == 10

\* a variant that sorts without reverse=True: oldest first
recent_of_oldest_first(all_tickets) ==
    LET oldest_first == SortByTextAscending(all_tickets,
            [i \in DOMAIN all_tickets |-> recent_key(all_tickets[i])])
    IN  SubSeq(oldest_first, 1, IF Len(oldest_first) < RecentLimit
                                THEN Len(oldest_first) ELSE RecentLimit)

\* sorted(all_tickets, key=lambda x: x['created_at'], reverse=True)[:10]
recent_of(all_tickets) ==
    LET newest_first == SortByTextDescending(all_tickets,
            [i \in DOMAIN all_tickets |-> recent_key(all_tickets[i])])
    IN  SubSeq(newest_first, 1, IF Len(newest_first) < RecentLimit
                                THEN Len(newest_first) ELSE RecentLimit)

\* the row of a recent ticket formats created_at with fromisoformat
render_raises(recent) == \E i \in DOMAIN recent : ~recent[i].created_at.iso

---------------------------------------------------------------------------
(* The source and the run *)

CsvFile == "data/customer_feedback.csv"

JsonFile == "data.json"

HtmlFile == "index.html"

AllFiles == {CsvFile, JsonFile, HtmlFile}

NowChoices == {10000}

TzOffsets == {-5, 0, 2}

RawIssue(identifier, title, description, state_name, state_type, project, parent, created, updated, completed, label_names) ==
    [ identifier    |-> identifier,
      title         |-> title,
      description   |-> description,
      state         |-> [name |-> state_name, type |-> state_type],
      priority      |-> Some(2),
      priorityLabel |-> Some("High"),
      project       |-> project,
      parent        |-> parent,
      createdAt     |-> created,
      updatedAt     |-> updated,
      completedAt   |-> completed,
      labels        |-> Some([nodes |-> Some([i \in DOMAIN label_names |->
                                                  [name |-> label_names[i]]])]) ]

MobileApp == Some([id |-> "p1", name |-> "Mobile App"])

CustomerText ==
    "**Customer:** Jane Doe (jane@x.com)\n**Quote:** \"Great product\"\n**Survey Wave:** Wave 2\n**Source:** CSAT Q2"

\* what the source holds, for the run at the instant t
SourceDb(t) ==
    { RawIssue("FR-1", "Dark mode", Some(CustomerText), "In Progress", "started",
               MobileApp, None, Ts(t - 100), Ts(t - 10), None, <<"Zendesk-Ticket">>),
      RawIssue("FR-2", "Export", None, "Done", "completed",
               None, None, Ts(t - 400), Ts(t - 167), Some(Ts(t - 167)), << >>),
      RawIssue("FR-4", "Converted to Project: Scheduling", None, "Todo", "unstarted",
               None, None, Ts(t - 50), Ts(t - 5), None, << >>),
      RawIssue("FR-5", "Geofencing", Some("Was CONVERTED TO PROJECT last week"),
               "Backlog", "backlog",
               None, None, Ts(t - 60), Ts(t - 6), None, << >>),
      RawIssue("FR-6", "Old idea", None, "Canceled", "canceled",
               None, None, Ts(t - 70), Ts(t - 7), None, << >>),
      RawIssue("FR-7", "Widgets", Some("**Customer:** (a@b.com)"), "Todo", "unstarted",
               None, None, Ts(t - 80), BadTs, None, <<"Sales", "zendesk">>) }

ProjectResponses ==
    { [status |-> st, errors |-> FALSE, nodes |-> << >>] : st \in HttpStatuses \ {200} }
    \cup { [status |-> 200, errors |-> TRUE, nodes |-> << >>] }
    \cup { [status |-> 200, errors |-> FALSE, nodes |-> n] :
             n \in { << >>, << [id |-> "p1", name |-> "Mobile App"] >> } }

\* responses to a page request when the source may serve room more records.
\* The nodes of a page are whatever the source sends: the program extends
\* all_issues with them as they are, so a page may hold records that the
\* filter of the query asks to leave out.
IssueResponses(now_utc, room) ==
    { [status |-> st, errors |-> FALSE, nodes |-> << >>, hasNextPage |-> FALSE] :
          st \in HttpStatuses \ {200} }
    \cup { [status |-> 200, errors |-> TRUE, nodes |-> << >>, hasNextPage |-> FALSE] }
    \cup { [status |-> 200, errors |-> FALSE, nodes |-> n, hasNextPage |-> h] :
             n \in SeqsUpTo(SourceDb(now_utc),
                            IF room < MaxPageLen THEN room ELSE MaxPageLen),
             h \in BOOLEAN }

\* index.html is not open; the selects have their selected options
NoPage ==
    /\ page_state = "closed"
    /\ allIssues = << >>
    /\ timeFilter = "30"
    /\ sourceFilter = "all"
    /\ featureChart = None
    /\ chart_now = 0
    /\ chart_zone = UtcZone
    /\ data_fetches = 0

NoRun ==
    /\ projects = None
    /\ all_issues = << >>
    /\ has_more = FALSE
    /\ cursor = None
    /\ page = 0
    /\ after = None
    /\ request_count = 0
    /\ last_response = None
    /\ served = << >>
    /\ final_page = 0
    /\ truncated = FALSE
    /\ raw_issues = None
    /\ parsed_tickets = None
    /\ customer_tickets = None
    /\ stats = None
    /\ priority_tickets = None
    /\ recent_tickets = None
    /\ csv_rows = None
    /\ json_issues = None
    /\ files = {}
    /\ error = None

Init ==
    /\ pc = "start"
    /\ api_key \in BOOLEAN
    /\ now \in NowChoices
    /\ tz \in TzOffsets
    /\ NoRun
    /\ labels_arg = None
    /\ label_ret = None
    /\ NoPage

fetch_vars == << all_issues, has_more, cursor, page, after, request_count,
                 last_response, served, final_page, truncated >>

output_vars == << raw_issues, parsed_tickets, customer_tickets, stats,
                  priority_tickets, recent_tickets, csv_rows, json_issues, files >>

env_vars == << api_key, now, tz, labels_arg, label_ret, browser_vars >>

\* an exception leaves main()
Raise(message) ==
    /\ pc' = "failed"
    /\ error' = Some(message)

\* main: the credential test
CheckCredential ==
    /\ pc = "start"
    /\ IF ~api_key
       THEN Raise("LINEAR_API_KEY environment variable not set")
       ELSE pc' = "fetch_projects" /\ error' = error
    /\ UNCHANGED << projects, fetch_vars, output_vars, env_vars >>

FetchProjects ==
    /\ pc = "fetch_projects"
    /\ \E resp \in ProjectResponses :
          IF projects_request_failed(resp.status)
          THEN Raise("API request failed") /\ projects' = projects
          ELSE IF resp.errors
          THEN Raise("GraphQL errors") /\ projects' = projects
          ELSE /\ projects' = Some(resp.nodes)
               /\ pc' = "fetch_issues"
               /\ error' = error
    /\ UNCHANGED << fetch_vars, output_vars, env_vars >>

\* fetch_linear_issues up to the loop
BeginFetchIssues ==
    /\ pc = "fetch_issues"
    /\ all_issues' = << >>
    /\ has_more' = TRUE
    /\ cursor' = None
    /\ page' = 1
    /\ pc' = "page_loop"
    /\ UNCHANGED << projects, after, request_count, last_response, served,
                    final_page, truncated, output_vars, env_vars, error >>

\* the request never carries a cursor
request_after_first_page(end_cursor) == None

\* variables.get('after') of a page request: set only if cursor is truthy
request_after(end_cursor) ==
    IF end_cursor = None \/ end_cursor = Some("") THEN None ELSE end_cursor

\* the endCursor the source returns with its k-th response: a text of its own
EndCursorOf(k) == "c" \o ToString(k)

\* one iteration of the while loop: one page request and its response
FetchIssuesPage ==
    /\ pc = "page_loop"
    /\ has_more
    /\ request_count < MaxRequests
    /\ after' = request_after(cursor)
    /\ request_count' = request_count + 1
    /\ \E resp \in IssueResponses(now, MaxIssues - Len(served)) :
          /\ last_response' = Some([status |-> resp.status, errors |-> resp.errors,
                                    hasNextPage |-> resp.hasNextPage,
                                    endCursor |-> Some(EndCursorOf(request_count + 1))])
          /\ IF issues_request_failed(resp.status) \/ resp.errors
             THEN /\ Raise(IF issues_request_failed(resp.status)
                           THEN "API request failed" ELSE "GraphQL errors")
                  /\ UNCHANGED << all_issues, has_more, cursor, page, served,
                                  final_page, truncated >>
             ELSE /\ all_issues' = all_issues \o resp.nodes
                  /\ served' = served \o resp.nodes
                  /\ final_page' = IF final_page = 0 /\ ~resp.hasNextPage
                                   THEN request_count + 1 ELSE final_page
                  /\ has_more' = resp.hasNextPage
                  /\ cursor' = Some(EndCursorOf(request_count + 1))
                  /\ page' = page + 1
                  /\ truncated' = limit_reached(page + 1)
                  /\ pc' = IF limit_reached(page + 1) \/ ~resp.hasNextPage
                           THEN "filter" ELSE "page_loop"
                  /\ error' = error
    /\ UNCHANGED << projects, output_vars, env_vars >>

\* fetch_linear_issues after the loop
ReturnIssues ==
    /\ pc = "filter"
    /\ raw_issues' = Some(filter_converted(all_issues))
    /\ pc' = "parse"
    /\ UNCHANGED << projects, fetch_vars, parsed_tickets, customer_tickets, stats,
                    priority_tickets, recent_tickets, csv_rows, json_issues,
                    files, env_vars, error >>

\* main: the comprehension over parse_ticket
ParseTickets ==
    /\ pc = "parse"
    /\ IF \E i \in DOMAIN raw_issues[1] : parse_ticket_raises(raw_issues[1][i])
       THEN Raise("AttributeError") /\ parsed_tickets' = parsed_tickets
       ELSE /\ parsed_tickets' = Some([i \in DOMAIN raw_issues[1] |->
                                          parse_ticket(raw_issues[1][i], raw_issues[1])])
            /\ pc' = "csv"
            /\ error' = error
    /\ UNCHANGED << projects, fetch_vars, raw_issues, customer_tickets, stats,
                    priority_tickets, recent_tickets, csv_rows, json_issues,
                    files, env_vars >>

GenerateCsv ==
    /\ pc = "csv"
    /\ csv_rows' = Some([i \in DOMAIN parsed_tickets[1] |-> csv_row(parsed_tickets[1][i])])
    /\ files' = files \cup {CsvFile}
    /\ pc' = "json"
    /\ UNCHANGED << projects, fetch_vars, raw_issues, parsed_tickets,
                    customer_tickets, stats, priority_tickets, recent_tickets,
                    json_issues, env_vars, error >>

GenerateJson ==
    /\ pc = "json"
    /\ json_issues' = Some([i \in DOMAIN parsed_tickets[1] |->
                               json_issue(parsed_tickets[1][i])])
    /\ files' = files \cup {JsonFile}
    /\ pc' = "stats"
    /\ UNCHANGED << projects, fetch_vars, raw_issues, parsed_tickets,
                    customer_tickets, stats, priority_tickets, recent_tickets,
                    csv_rows, env_vars, error >>

GenerateStatistics ==
    /\ pc = "stats"
    /\ customer_tickets' = Some(customer_tickets_of(parsed_tickets[1]))
    /\ stats' = Some(generate_statistics(parsed_tickets[1], now, tz))
    /\ pc' = "html"
    /\ UNCHANGED << projects, fetch_vars, raw_issues, parsed_tickets,
                    priority_tickets, recent_tickets, csv_rows, json_issues,
                    files, env_vars, error >>

\* generate_html_dashboard: the queue, its two sorts, the recent tickets,
\* the rendering and the write of index.html
GenerateHtmlDashboard ==
    /\ pc = "html"
    /\ LET queue  == queue_of(parsed_tickets[1], now, tz)
           recent == recent_of(parsed_tickets[1])
       IN  IF queue_sort_raises(queue)
           THEN /\ Raise("ValueError in the queue sort")
                /\ UNCHANGED << priority_tickets, recent_tickets, files >>
           ELSE /\ priority_tickets' = Some(sort_queue(sort_queue(queue, tz), tz))
                /\ recent_tickets' = Some(recent)
                /\ IF render_raises(recent)
                   THEN Raise("ValueError in the recent rows") /\ files' = files
                   ELSE /\ files' = files \cup {HtmlFile}
                        /\ pc' = "done"
                        /\ error' = error
    /\ UNCHANGED << projects, fetch_vars, raw_issues, parsed_tickets,
                    customer_tickets, stats, csv_rows, json_issues, env_vars >>

Pipeline ==
    \/ ParseTickets
    \/ GenerateCsv
    \/ GenerateJson
    \/ GenerateStatistics
    \/ GenerateHtmlDashboard

Next ==
    \/ CheckCredential
    \/ FetchProjects
    \/ BeginFetchIssues
    \/ FetchIssuesPage
    \/ ReturnIssues
    \/ ParseTickets
    \/ GenerateCsv
    \/ GenerateJson
    \/ GenerateStatistics
    \/ GenerateHtmlDashboard

Spec == Init /\ [][Next]_vars

---------------------------------------------------------------------------
(* get_source_label on bounded label lists *)

LabelNames ==
    { "Zendesk-Ticket", "phone-call", "Sales", "csat-q2", "UXR", "bug",
      "partner-success", "Partner Success", "in person", "email from sales",
      "Slack" }

LabelArgs ==
    {None} \cup { Some(l) : l \in SeqsUpTo([name : LabelNames], MaxLabels) }

InitLabels ==
    /\ pc = "idle"
    /\ api_key = FALSE
    /\ now = 0
    /\ tz = 0
    /\ NoRun
    /\ labels_arg \in LabelArgs
    /\ label_ret = None
    /\ NoPage

CallGetSourceLabel ==
    /\ label_ret = None
    /\ label_ret' = Some(get_source_label(labels_arg))
    /\ UNCHANGED << labels_arg, run_vars, browser_vars >>

NextLabels == CallGetSourceLabel

SpecLabels == InitLabels /\ [][NextLabels]_vars

---------------------------------------------------------------------------
(* parse_ticket and the outputs on single records of many shapes *)

ParseDescriptions ==
    { None,
      Some(""),
      Some("Please add a dark theme"),
      Some(CustomerText),
      Some("**Customer:** (a@b.com)"),
      Some("**Customer:** [Bob](mailto:bob@x.com)\n**Source:** Beta Support"),
      Some("**Customer:**\n"),
      Some("**Source:** Internal Email\n\n**Survey Wave:** 3") }

ParseProjects ==
    { None, Some([id |-> "p0", name |-> ""]), MobileApp }

ParentTitles ==
    { "", "Misc backlog", "Smart Home epic", "App UX polish", "Mobile app",
      "HomeKit + Thermal", "Lighting", "Away Mode", "Partner Tooling" }

ParseParents ==
    {None} \cup { Some([id |-> "e1", identifier |-> "FR-100", title |-> t]) :
                    t \in ParentTitles }

ParseLabelLists == { << >>, <<"Zendesk-Ticket">>, <<"phone-call", "UXR">> }

ParseInputs ==
    { RawIssue("FR-9", "Request", d, "Todo", "unstarted", p, e,
               Ts(9900), Ts(9990), None, l) :
        d \in ParseDescriptions, p \in ParseProjects, e \in ParseParents,
        l \in ParseLabelLists }

InitParse ==
    /\ pc = "parse"
    /\ api_key = TRUE
    /\ now \in NowChoices
    /\ tz = 0
    /\ projects = Some(<< >>)
    /\ all_issues = << >>
    /\ has_more = FALSE
    /\ cursor = None
    /\ page = 0
    /\ after = None
    /\ request_count = 0
    /\ last_response = None
    /\ served = << >>
    /\ final_page = 0
    /\ truncated = FALSE
    /\ raw_issues \in { Some(<< t >>) : t \in ParseInputs }
    /\ parsed_tickets = None
    /\ customer_tickets = None
    /\ stats = None
    /\ priority_tickets = None
    /\ recent_tickets = None
    /\ csv_rows = None
    /\ json_issues = None
    /\ files = {}
    /\ error = None
    /\ labels_arg = None
    /\ label_ret = None
    /\ NoPage

SpecParse == InitParse /\ [][Pipeline]_vars

---------------------------------------------------------------------------
(* The views of the dashboard on ticket lists of many shapes *)

DashUpdated(t) == { Ts(t - 20), Ts(t - 10), BadTs }

DashCompleted(t) ==
    { None, Some(BadTs), Some(Ts(t - 170)), Some(Ts(t - 167)), Some(Ts(t - 1)) }

DashInputs(t) ==
    { RawIssue("FR-9", "Request", None, st, "started", None, None,
               Ts(t - 200), u, None, << >>) :
        st \in ActiveStatusNames \cup {"Backlog"}, u \in DashUpdated(t) }
    \cup
    { RawIssue("FR-9", "Request", None, "Done", "completed", None, None,
               Ts(t - 200), u, c, << >>) :
        u \in DashUpdated(t), c \in DashCompleted(t) }

InitDash ==
    /\ pc = "parse"
    /\ api_key = TRUE
    /\ now \in NowChoices
    /\ tz \in TzOffsets
    /\ projects = Some(<< >>)
    /\ all_issues = << >>
    /\ has_more = FALSE
    /\ cursor = None
    /\ page = 0
    /\ after = None
    /\ request_count = 0
    /\ last_response = None
    /\ served = << >>
    /\ final_page = 0
    /\ truncated = FALSE
    /\ raw_issues \in { Some(l) : l \in SeqsUpTo(DashInputs(now), MaxTickets) }
    /\ parsed_tickets = None
    /\ customer_tickets = None
    /\ stats = None
    /\ priority_tickets = None
    /\ recent_tickets = None
    /\ csv_rows = None
    /\ json_issues = None
    /\ files = {}
    /\ error = None
    /\ labels_arg = None
    /\ label_ret = None
    /\ NoPage

SpecDash == InitDash /\ [][Pipeline]_vars

---------------------------------------------------------------------------
(* generate_html_dashboard on lists longer than the Recent view *)

\* longest ticket list given to the Recent view
MaxRecentInput == 11

TicketIds ==
    << "FR-1", "FR-2", "FR-3", "FR-4", "FR-5", "FR-6", "FR-7", "FR-8", "FR-9",
       "FR-10", "FR-11", "FR-12", "FR-13", "FR-14" >>

RecentCreated(t) == { Ts(t - 200), Ts(t - 100) }

\* lists of tickets that differ in identifier and created_at only
RecentInputs(t) ==
    UNION { { [i \in 1..n |-> RawIssue(TicketIds[i], "Request", None, "Backlog",
                                       "backlog", None, None, c[i], Ts(t - 10),
                                       None, << >>)] :
                c \in [1..n -> RecentCreated(t)] } :
            n \in 0..MaxRecentInput }

InitRecent ==
    /\ pc = "parse"
    /\ api_key = TRUE
    /\ now \in NowChoices
    /\ tz = 0
    /\ projects = Some(<< >>)
    /\ all_issues = << >>
    /\ has_more = FALSE
    /\ cursor = None
    /\ page = 0
    /\ after = None
    /\ request_count = 0
    /\ last_response = None
    /\ served = << >>
    /\ final_page = 0
    /\ truncated = FALSE
    /\ raw_issues \in { Some(l) : l \in RecentInputs(now) }
    /\ parsed_tickets = None
    /\ customer_tickets = None
    /\ stats = None
    /\ priority_tickets = None
    /\ recent_tickets = None
    /\ csv_rows = None
    /\ json_issues = None
    /\ files = {}
    /\ error = None
    /\ labels_arg = None
    /\ label_ret = None
    /\ NoPage

SpecRecent == InitRecent /\ [][Pipeline]_vars

---------------------------------------------------------------------------
(* generate_statistics on lists of tickets with several category values *)

\* longest ticket list given to generate_statistics
MaxStatTickets == 3

StatInputs(t) ==
    { RawIssue("FR-1", "Dark mode", Some(CustomerText), "Todo", "unstarted",
               MobileApp, None, Ts(t - 100), Ts(t - 10), None, <<"Zendesk-Ticket">>),
      [ RawIssue("FR-2", "Export",
                 Some("**Customer:** Bob\n**Survey Wave:** 3\n**Source:** Beta group"),
                 "Todo", "unstarted", None, None, Ts(t - 90), Ts(t - 9), None,
                 <<"Sales">>)
          EXCEPT !["priorityLabel"] = Some("Low") ],
      RawIssue("FR-3", "Import", Some("**Customer:** Bob"), "Todo", "unstarted",
               None, Some([id |-> "e1", identifier |-> "FR-100", title |-> "Lighting"]),
               Ts(t - 80), Ts(t - 8), None, << >>),
      RawIssue("FR-4", "Widgets", None, "Todo", "unstarted",
               None, None, Ts(t - 70), Ts(t - 7), None, <<"UXR">>) }

InitStats ==
    /\ pc = "parse"
    /\ api_key = TRUE
    /\ now \in NowChoices
    /\ tz = 0
    /\ projects = Some(<< >>)
    /\ all_issues = << >>
    /\ has_more = FALSE
    /\ cursor = None
    /\ page = 0
    /\ after = None
    /\ request_count = 0
    /\ last_response = None
    /\ served = << >>
    /\ final_page = 0
    /\ truncated = FALSE
    /\ raw_issues \in { Some(l) : l \in SeqsUpTo(StatInputs(now), MaxStatTickets) }
    /\ parsed_tickets = None
    /\ customer_tickets = None
    /\ stats = None
    /\ priority_tickets = None
    /\ recent_tickets = None
    /\ csv_rows = None
    /\ json_issues = None
    /\ files = {}
    /\ error = None
    /\ labels_arg = None
    /\ label_ret = None
    /\ NoPage

SpecStats == InitStats /\ [][Pipeline]_vars

---------------------------------------------------------------------------
(* The script of index.html: the chart and its two selects *)

TimeFilterOptions == {"all", "30", "60", "90"}

SourceFilterOptions ==
    {"all", "zendesk", "CSAT", "sales", "partner success", "UXR", "other", "unlabeled"}

\* parseInt of the value of an option of timeFilter
parseInt(text) ==
    CASE text = "30" -> 30
      [] text = "60" -> 60
      [] text = "90" -> 90

DigitValue(c) == CHOOSE d \in 0..9 : CharAt("0123456789", d + 1) = c

RECURSIVE digits_value(_)
digits_value(s) ==
    IF Len(s) = 0 THEN 0
    ELSE 10 * digits_value(SubSeq(s, 1, Len(s) - 1)) + DigitValue(CharAt(s, Len(s)))

\* the number a digit string of at most 10 digits denotes, as the pair of
\* its part above and its part below 10^5
index_value(s) ==
    IF Len(s) <= 5 THEN << 0, digits_value(s) >>
    ELSE << digits_value(SubSeq(s, 1, Len(s) - 5)),
            digits_value(SubSeq(s, Len(s) - 4, Len(s))) >>

\* a property key that is an array index: a canonical number below 2^32 - 1;
\* an object lists these keys first, in ascending order
is_array_index(s) ==
    /\ Len(s) \in 1..10
    /\ \A i \in 1..Len(s) : IsDigit(CharAt(s, i))
    /\ Len(s) > 1 => CharAt(s, 1) # "0"
    /\ PairLess(index_value(s), << 42949, 67295 >>)

\* Object.entries of an object whose keys were inserted in the order of
\* pairs: the array indices in ascending order, then the other keys in the
\* order of insertion
object_entries(pairs) ==
    LET by_number == StableSortByKey(pairs, [i \in DOMAIN pairs |->
                        IF is_array_index(pairs[i][1])
                        THEN index_value(pairs[i][1]) ELSE << 0, 0 >>])
    IN  StableSortByKey(by_number, [i \in DOMAIN by_number |->
                        << IF is_array_index(by_number[i][1]) THEN 0 ELSE 1, 0 >>])

\* the callback of allIssues.filter.  cutoffDate is new Date() with
\* setDate(getDate() - daysAgo): the same time of day daysAgo calendar days
\* earlier in the zone of the browser.  createdDate is new Date(createdAt),
\* a text without offset read as local time; createdDate < cutoffDate is
\* false for an invalid date.
filter_passes(issue, time_filter, source_filter, date_now, zone) ==
    LET created     == issue.createdAt
        cutoffDate  == local_to_utc(date_now + zone_offset(zone, date_now)
                                      - 24 * parseInt(time_filter), zone)
        createdDate == IF created.date_offset = None
                       THEN local_to_utc(created.date_wall, zone)
                       ELSE created.date_wall - created.date_offset[1]
    IN  /\ \/ time_filter = "all"
           \/ ~(created.date /\ createdDate < cutoffDate)
        /\ \/ source_filter = "all"
           \/ issue.sourceLabel = source_filter

\* issue.featureArea || 'Unknown'
area_of(issue) == IF issue.featureArea = "" THEN "Unknown" ELSE issue.featureArea

\* A value of featureAreaCounts is a number or a text.
JsNumber(n) == [type |-> "number", n |-> n, s |-> ""]

JsString(s) == [type |-> "string", n |-> 0, s |-> s]

\* the properties every object inherits from Object.prototype that are
\* functions; __proto__ is inherited too, as a getter and a setter
PrototypeMethods ==
    { "constructor", "__defineGetter__", "__defineSetter__", "hasOwnProperty",
      "__lookupGetter__", "__lookupSetter__", "isPrototypeOf",
      "propertyIsEnumerable", "toString", "valueOf", "toLocaleString" }

\* the object after the forEach has counted the first k areas into counts.
\* An object is the sequence of its own properties << key, value >> in the
\* order of their creation.  (featureAreaCounts[area] || 0) + 1 is an own
\* count plus one, a text with "1" appended, and for a key the object does
\* not own what it inherits: a function or the prototype, both truthy and
\* turned to text by + (the text of a function as V8 writes it).  The
\* assignment makes or keeps an own property, but the setter of __proto__
\* ignores a value that is no object.
RECURSIVE count_areas(_, _, _)
count_areas(counts, areas, k) ==
    IF k = 0 THEN counts
    ELSE LET obj     == count_areas(counts, areas, k - 1)
             key     == areas[k]
             has_own == \E i \in DOMAIN obj : obj[i][1] = key
             own     == obj[CHOOSE i \in DOMAIN obj : obj[i][1] = key][2]
             function_text ==
                 "function " \o (IF key = "constructor" THEN "Object" ELSE key)
                             \o "() { [native code] }"
             value   ==
                 IF has_own
                 THEN IF own.type = "number"
                      THEN JsNumber(own.n + 1)
                      ELSE JsString(own.s \o "1")
                 ELSE IF key \in PrototypeMethods THEN JsString(function_text \o "1")
                 ELSE IF key = "__proto__" THEN JsString("[object Object]1")
                 ELSE JsNumber(1)
         IN  IF key = "__proto__" THEN obj
             ELSE IF has_own
             THEN [i \in DOMAIN obj |->
                      IF obj[i][1] = key THEN << key, value >> ELSE obj[i]]
             ELSE Append(obj, << key, value >>)

\* .sort((a, b) => b[1] - a[1]): the difference is NaN when a count is a
\* text, which sort takes as 0.  The sort is stable.  With a text among
\* numbers that differ the comparator is not consistent, and the order is
\* then left to the implementation: any arrangement of the entries.
sorted_entries(entries) ==
    LET texts   == { i \in DOMAIN entries : entries[i][2].type = "string" }
        numbers == DOMAIN entries \ texts
        n       == Len(entries)
        arrangements ==
            { [i \in 1..n |-> entries[f[i]]] :
                f \in { g \in [1..n -> 1..n] : \A x, y \in 1..n : x # y => g[x] # g[y] } }
    IN  IF texts = {}
        THEN { StableSortByKey(entries, [i \in DOMAIN entries |->
                                            << 0 - entries[i][2].n, 0 >>]) }
        ELSE IF \A i, j \in numbers : entries[i][2].n = entries[j][2].n
        THEN { entries }
        ELSE arrangements

\* a variant that counts into the object of the chart on display
updateChart_incremental(issues, time_filter, source_filter, date_now, zone) ==
    LET filteredIssues == PickIndices(issues, { i \in DOMAIN issues :
                              filter_passes(issues[i], time_filter, source_filter,
                                            date_now, zone) })
        areas  == [i \in DOMAIN filteredIssues |-> area_of(filteredIssues[i])]
        shown  == IF featureChart = None THEN << >> ELSE featureChart[1]
    IN  sorted_entries(object_entries(count_areas(shown, areas, Len(areas))))

\* updateChart: the labels and counts given to the new chart, as the set of
\* the charts the call can end with
updateChart(issues, time_filter, source_filter, date_now, zone) ==
    LET filteredIssues == PickIndices(issues, { i \in DOMAIN issues :
                              filter_passes(issues[i], time_filter, source_filter,
                                            date_now, zone) })
        areas  == [i \in DOMAIN filteredIssues |-> area_of(filteredIssues[i])]
    IN  sorted_entries(object_entries(count_areas(<< >>, areas, Len(areas))))

\* the dates at which the page is looked at, in hours after the run
ViewDelays == {0, 960}

\* the browser opens the index.html the run has written: the script starts
\* with an empty allIssues and asks for data.json
OpenPage ==
    /\ pc = "done"
    /\ page_state = "closed"
    /\ page_state' = "loading"
    /\ allIssues' = << >>
    /\ featureChart' = None
    /\ data_fetches' = data_fetches + 1
    /\ UNCHANGED << run_vars, labels_arg, label_ret, timeFilter, sourceFilter, chart_now,
                    chart_zone >>

\* the then-callbacks of fetch('data.json')
DataLoaded ==
    /\ page_state = "loading"
    /\ page_state' = "loaded"
    /\ allIssues' = json_issues[1]
    /\ \E d \in ViewDelays, zone \in {UtcZone, NewYorkZone} :
          /\ chart_now' = now + d
          /\ chart_zone' = zone
          /\ \E chart \in updateChart(json_issues[1], timeFilter, sourceFilter,
                                      now + d, zone) :
                featureChart' = Some(chart)
    /\ UNCHANGED << run_vars, labels_arg, label_ret, timeFilter, sourceFilter, data_fetches >>

\* the change listener of timeFilter
ChangeTimeFilter ==
    /\ page_state \in {"loading", "loaded"}
    /\ \E v \in TimeFilterOptions \ {timeFilter}, d \in ViewDelays,
          zone \in {UtcZone, NewYorkZone} :
          /\ timeFilter' = v
          /\ chart_now' = now + d
          /\ chart_zone' = zone
          /\ \E chart \in updateChart(allIssues, v, sourceFilter, now + d, zone) :
                featureChart' = Some(chart)
    /\ UNCHANGED << run_vars, labels_arg, label_ret, page_state, allIssues,
                    sourceFilter, data_fetches >>

\* the change listener of sourceFilter
ChangeSourceFilter ==
    /\ page_state \in {"loading", "loaded"}
    /\ \E v \in SourceFilterOptions \ {sourceFilter}, d \in ViewDelays,
          zone \in {UtcZone, NewYorkZone} :
          /\ sourceFilter' = v
          /\ chart_now' = now + d
          /\ chart_zone' = zone
          /\ \E chart \in updateChart(allIssues, timeFilter, v, now + d, zone) :
                featureChart' = Some(chart)
    /\ UNCHANGED << run_vars, labels_arg, label_ret, page_state, allIssues,
                    timeFilter, data_fetches >>

\* longest ticket list of the dataset the page loads
MaxChartTickets == 2

\* among the projects one named by a number and one named like a property
\* that every object inherits
ChartInputs(t) ==
    { RawIssue("FR-1", "Dark mode", None, "Todo", "unstarted",
               MobileApp, None, Ts(t - 100), Ts(t - 10), None, <<"Zendesk-Ticket">>),
      RawIssue("FR-2", "Export", None, "Todo", "unstarted",
               Some([id |-> "p7", name |-> "7"]), None, Ts(t - 1000), Ts(t - 9), None, <<"Sales">>),
      RawIssue("FR-3", "Import", None, "Todo", "unstarted",
               None, None, Ts(t - 2000), Ts(t - 8), None, <<"Zendesk-Ticket">>),
      RawIssue("FR-4", "Widgets", None, "Backlog", "backlog",
               MobileApp, None, Ts(t - 3000), Ts(t - 7), None, << >>),
      RawIssue("FR-5", "Builder", None, "Todo", "unstarted",
               Some([id |-> "p8", name |-> "constructor"]), None, Ts(t - 480), Ts(t - 6), None, <<"Sales">>) }

InitBrowser ==
    /\ pc = "parse"
    /\ api_key = TRUE
    /\ now \in NowChoices
    /\ tz = 0
    /\ projects = Some(<< >>)
    /\ all_issues = << >>
    /\ has_more = FALSE
    /\ cursor = None
    /\ page = 0
    /\ after = None
    /\ request_count = 0
    /\ last_response = None
    /\ served = << >>
    /\ final_page = 0
    /\ truncated = FALSE
    /\ raw_issues \in { Some(l) : l \in SeqsUpTo(ChartInputs(now), MaxChartTickets) }
    /\ parsed_tickets = None
    /\ customer_tickets = None
    /\ stats = None
    /\ priority_tickets = None
    /\ recent_tickets = None
    /\ csv_rows = None
    /\ json_issues = None
    /\ files = {}
    /\ error = None
    /\ labels_arg = None
    /\ label_ret = None
    /\ NoPage

NextBrowser ==
    \/ Pipeline
    \/ OpenPage
    \/ DataLoaded
    \/ ChangeTimeFilter
    \/ ChangeSourceFilter

SpecBrowser == InitBrowser /\ [][NextBrowser]_vars

---------------------------------------------------------------------------
(* parse_ticket on records with optional fields missing or null *)

OptionalFields ==
    {"description", "priority", "priorityLabel", "project", "parent",
     "completedAt", "labels"}

FullRecord(t) ==
    RawIssue("FR-1", "Dark mode", Some(CustomerText), "Done", "completed",
             MobileApp, Some([id |-> "e1", identifier |-> "FR-100", title |-> "Lighting"]),
             Ts(t - 100), Ts(t - 10), Some(Ts(t - 10)), <<"Zendesk-Ticket">>)

\* the record without the keys in missing and with null for the keys in nulls
PartialRecord(full, missing, nulls) ==
    [k \in (DOMAIN full) \ missing |-> IF k \in nulls THEN None ELSE full[k]]

PartialInputs(t) ==
    { PartialRecord(FullRecord(t), missing, nulls) :
        missing \in SUBSET OptionalFields, nulls \in SUBSET OptionalFields }

InitPartial ==
    /\ pc = "parse"
    /\ api_key = TRUE
    /\ now \in NowChoices
    /\ tz = 0
    /\ projects = Some(<< >>)
    /\ all_issues = << >>
    /\ has_more = FALSE
    /\ cursor = None
    /\ page = 0
    /\ after = None
    /\ request_count = 0
    /\ last_response = None
    /\ served = << >>
    /\ final_page = 0
    /\ truncated = FALSE
    /\ raw_issues \in { Some(<< r >>) : r \in PartialInputs(now) }
    /\ parsed_tickets = None
    /\ customer_tickets = None
    /\ stats = None
    /\ priority_tickets = None
    /\ recent_tickets = None
    /\ csv_rows = None
    /\ json_issues = None
    /\ files = {}
    /\ error = None
    /\ labels_arg = None
    /\ label_ret = None
    /\ NoPage

SpecPartial == InitPartial /\ [][Pipeline]_vars

(***************************************************************************)
(* parse_ticket on descriptions whose Source line names the keywords of    *)
(* none, one or several source_type rules, each with several label lists.  *)
(***************************************************************************)
SourceDetails ==
    { "Phone call", "beta support", "CSAT", "Survey Wave 3", "Usage Survey",
      "Satisfaction", "Early Adopter", "Qualitative Research", "Beta",
      "Support", "Email", "Internal",
      "Beta Support", "Support during Beta", "Internal Email",
      "Usage Wave", "Satisfaction CSAT", "Early Adopter Beta",
      "Beta Qualitative Research", "Email Usage", "Internal Beta",
      "Support CSAT", "Internal Early Adopter", "Beta Internal Email" }

SourceDescriptions ==
    { None, Some(""), Some("Please add a dark theme"), Some(CustomerText) }
      \cup { Some("**Source:** " \o d) : d \in SourceDetails }
      \cup { Some("**Customer:** Ann\n**Source:** " \o d \o "\n\nThanks") :
               d \in {"Beta Support", "Phone call"} }

SourceInputs ==
    { RawIssue("FR-9", "Request", d, "Todo", "unstarted", MobileApp, None,
               Ts(9900), Ts(9990), None, l) :
        d \in SourceDescriptions, l \in ParseLabelLists }

InitSource ==
    /\ pc = "parse"
    /\ api_key = TRUE
    /\ now \in NowChoices
    /\ tz = 0
    /\ projects = Some(<< >>)
    /\ all_issues = << >>
    /\ has_more = FALSE
    /\ cursor = None
    /\ page = 0
    /\ after = None
    /\ request_count = 0
    /\ last_response = None
    /\ served = << >>
    /\ final_page = 0
    /\ truncated = FALSE
    /\ raw_issues \in { Some(<< t >>) : t \in SourceInputs }
    /\ parsed_tickets = None
    /\ customer_tickets = None
    /\ stats = None
    /\ priority_tickets = None
    /\ recent_tickets = None
    /\ csv_rows = None
    /\ json_issues = None
    /\ files = {}
    /\ error = None
    /\ labels_arg = None
    /\ label_ret = None
    /\ NoPage

SpecSource == InitSource /\ [][Pipeline]_vars

(***************************************************************************)
(* parse_ticket on tickets whose parent title names the keywords of none,  *)
(* one or several feature_area rules, with and without a project.          *)
(***************************************************************************)
AreaParentTitles ==
    { "", "Misc backlog", "Smart Home epic", "HomeKit", "Integrations",
      "Thermal", "Comfort", "Schedules", "App UX polish", "Mobile app",
      "UX only", "Hardware", "Dial", "Energy", "Usage", "Auto-Away", "Away",
      "Mode", "Controls", "Lighting", "Device", "Pairing", "Partner",
      "Tooling", "HomeKit + Thermal", "Comfort schedule", "Hardware dial",
      "Energy away mode", "Partner device pairing", "Dial app UX",
      "Tooling integration", "Night light", "Thermware tuning",
      "Control lights" }

AreaInputs ==
    { RawIssue("FR-9", "Request", None, "Todo", "unstarted", p,
               IF e = None THEN None
               ELSE Some([id |-> "e1", identifier |-> "FR-100", title |-> e[1]]),
               Ts(9900), Ts(9990), None, << >>) :
        p \in ParseProjects,
        e \in {None} \cup { Some(t) : t \in AreaParentTitles } }

InitArea ==
    /\ pc = "parse"
    /\ api_key = TRUE
    /\ now \in NowChoices
    /\ tz = 0
    /\ projects = Some(<< >>)
    /\ all_issues = << >>
    /\ has_more = FALSE
    /\ cursor = None
    /\ page = 0
    /\ after = None
    /\ request_count = 0
    /\ last_response = None
    /\ served = << >>
    /\ final_page = 0
    /\ truncated = FALSE
    /\ raw_issues \in { Some(<< t >>) : t \in AreaInputs }
    /\ parsed_tickets = None
    /\ customer_tickets = None
    /\ stats = None
    /\ priority_tickets = None
    /\ recent_tickets = None
    /\ csv_rows = None
    /\ json_issues = None
    /\ files = {}
    /\ error = None
    /\ labels_arg = None
    /\ label_ret = None
    /\ NoPage

SpecArea == InitArea /\ [][Pipeline]_vars

---------------------------------------------------------------------------
(* Properties *)

Reorderings(seq) ==
    { [i \in DOMAIN seq |-> seq[f[i]]] :
        f \in { g \in [DOMAIN seq -> DOMAIN seq] :
                  \A a, b \in DOMAIN seq : a # b => g[a] # g[b] } }

MarkerPhrase == "converted to project"

\* the raw record has the marker phrase in its title or description
HasMarker(r) ==
    \/ InChars(MarkerPhrase, lower(r["title"]))
    \/ r["description"] # None /\ InChars(MarkerPhrase, lower(r["description"][1]))

\* identifiers of the source's records that have the marker phrase
MarkedIds ==
    UNION { { r["identifier"] : r \in { x \in SourceDb(t) : HasMarker(x) } } :
              t \in NowChoices }

\* identifiers of the source's records whose state type is canceled
CanceledIds ==
    UNION { { r["identifier"] : r \in { x \in SourceDb(t) : x["state"].type = "canceled" } } :
              t \in NowChoices }

\* identifiers of the tickets in a view that may not have been produced yet
IdsOf(view) == IF view = None THEN {} ELSE { view[1][i].ticket_id : i \in DOMAIN view[1] }

DownstreamIds ==
    IdsOf(parsed_tickets) \cup IdsOf(customer_tickets) \cup IdsOf(priority_tickets)
        \cup IdsOf(recent_tickets) \cup IdsOf(csv_rows)
        \cup (IF json_issues = None THEN {}
              ELSE { json_issues[1][i].id : i \in DOMAIN json_issues[1] })

FetchFailed(resp) == resp.status \notin 200..299 \/ resp.errors

\* C1: a traversal whose first page with hasNextPage false is page N takes
\* exactly min(N, 20) page requests (20 when no page says so), never more
\* than 20, and then returns the records of the pages fetched (less the
\* converted epics, which the function drops before it returns).
C1_RequestsUpToCeiling ==
    /\ request_count <= PageLimit
    /\ pc = "page_loop" => request_count < PageLimit /\ final_page = 0
    /\ raw_issues # None =>
          /\ request_count = IF final_page = 0 \/ final_page > PageLimit
                             THEN PageLimit ELSE final_page
          /\ raw_issues[1] = PickIndices(served, { i \in DOMAIN served :
                                       served[i]["identifier"] \notin MarkedIds })

C1_Witness_CeilingOnEndlessSource ==
    /\ raw_issues # None
    /\ request_count = PageLimit
    /\ final_page = 0
    /\ last_response[1].hasNextPage
    /\ Len(raw_issues[1]) = MaxIssues

\* C2: once a page request got a non-2xx response or an error payload the
\* run has failed, nothing was returned or written, and no further page
\* request is ever issued.
C2_FetchFailureAborts ==
    /\ [](last_response # None /\ FetchFailed(last_response[1]) =>
            /\ pc = "failed"
            /\ error # None
            /\ raw_issues = None
            /\ parsed_tickets = None
            /\ files = {})
    /\ [][last_response # None /\ FetchFailed(last_response[1]) =>
            request_count' = request_count /\ last_response' = last_response]_vars

C2_Witness_FailureOnLaterPage ==
    /\ pc = "failed"
    /\ request_count >= 2
    /\ Len(all_issues) > 0
    /\ last_response[1].status = 401
    /\ raw_issues = None

\* C3: at the end of a run either no output file has been written or all
\* three have.
C3_AllOrNothingOutputs ==
    pc \in {"done", "failed"} => files = {} \/ files = AllFiles

\* C4: get_source_label returns the same value for every permutation of its
\* label list.
C4_SourceLabelOrderIndependent ==
    label_ret # None /\ labels_arg # None =>
        \A perm \in Reorderings(labels_arg[1]) :
            get_source_label(Some(perm)) = label_ret[1]

SourceLabels == {"zendesk", "CSAT", "sales", "partner success", "UXR", "other", "unlabeled"}

SpecificKeywords == {"zendesk", "csat", "sales", "partner success", "partner-success", "uxr"}

GenericKeywords == {"email", "phone", "slack", "in person", "in-person"}

HasKeyword(name, keywords) == \E k \in keywords : InChars(k, lower(name))

\* C5: get_source_label returns a value of the closed set; it is unlabeled
\* exactly when the list is absent or empty or no label holds a recognized
\* keyword; when the labels hold generic channel keywords only it is other.
C5_SourceLabelClosedSet ==
    label_ret # None =>
        LET names == IF labels_arg = None THEN {}
                     ELSE { labels_arg[1][i].name : i \in DOMAIN labels_arg[1] }
        IN  /\ label_ret[1] \in SourceLabels
            /\ label_ret[1] = "unlabeled" <=>
                  ~\E n \in names : HasKeyword(n, SpecificKeywords \cup GenericKeywords)
            /\ (/\ \E n \in names : HasKeyword(n, GenericKeywords)
                /\ ~\E n \in names : HasKeyword(n, SpecificKeywords))
                  => label_ret[1] = "other"

C5_Witness_GenericChannelIsOther ==
    /\ labels_arg = Some(<< [name |-> "bug"], [name |-> "phone-call"] >>)
    /\ label_ret = Some("other")

\* C6: no ticket whose state type is canceled and no ticket with the marker
\* phrase in its title or description is normalized or appears in a view,
\* the CSV or the JSON, whatever records the pages of the source hold.
C6_CanceledAndConvertedExcluded ==
    DownstreamIds \cap (MarkedIds \cup CanceledIds) = {}

\* C7: has_customer_feedback is true exactly for the tickets whose customer
\* is not absent, and the customer-attributed view of the statistics is the
\* list of those tickets.
C7_CustomerFlagIffCustomer ==
    /\ parsed_tickets # None =>
          \A i \in DOMAIN parsed_tickets[1] :
              parsed_tickets[1][i].has_customer_feedback
                  <=> parsed_tickets[1][i].customer # None
    /\ customer_tickets # None =>
          /\ customer_tickets[1] =
                PickIndices(parsed_tickets[1], { i \in DOMAIN parsed_tickets[1] :
                                                   parsed_tickets[1][i].customer # None })
          /\ stats[1].total_tickets = Len(customer_tickets[1])

C7_Witness_EmptyCustomerIsAttributed ==
    /\ customer_tickets # None
    /\ Len(parsed_tickets[1]) = 2
    /\ parsed_tickets[1][1].customer = None
    /\ parsed_tickets[1][2].customer = Some("")
    /\ Len(customer_tickets[1]) = 1

FeatureKeywords ==
    { "smart home", "homekit", "integration", "thermal", "comfort", "thermware",
      "schedule", "hardware", "dial", "energy", "usage", "auto-away", "away",
      "mode", "control", "lighting", "light", "device", "pairing", "partner",
      "tooling" }

ParentRuleMatches(title) ==
    \/ HasKeyword(title, FeatureKeywords)
    \/ HasKeyword(title, {"app"}) /\ HasKeyword(title, {"ux"})

\* C8: feature_area is never the empty string, and it is Unknown when the
\* record has no project name and no parent title that matches a rule.
C8_FeatureAreaNeverEmpty ==
    parsed_tickets # None =>
        \A i \in DOMAIN parsed_tickets[1] :
            LET raw == raw_issues[1][i]
                out == parsed_tickets[1][i]
            IN  /\ out.feature_area # ""
                /\ Len(out.feature_area) > 0
                /\ (/\ raw["project"] = None \/ raw["project"][1].name = ""
                    /\ raw["parent"] = None \/ ~ParentRuleMatches(raw["parent"][1].title))
                      => out.feature_area = "Unknown"

C8_Witness_EmptyProjectNameUnknown ==
    /\ parsed_tickets # None
    /\ raw_issues[1][1]["project"] = Some([id |-> "p0", name |-> ""])
    /\ raw_issues[1][1]["parent"] # None
    /\ raw_issues[1][1]["parent"][1].title = "Misc backlog"
    /\ parsed_tickets[1][1].feature_area = "Unknown"

\* the specified queue: the active statuses, and Done when
\* completed_at parses and is at most 7 days before the run
ShouldQueue(t) ==
    \/ t.status \in {"In Progress", "Todo", "In Review"}
    \/ /\ t.status = "Done"
       /\ t.completed_at # None
       /\ t.completed_at[1].iso
       /\ t.completed_at[1].h >= now - 7 * 24

\* C9: the active queue holds exactly the tickets with an active status and
\* the Done tickets completed at most 7 days before the run; the others stay
\* in the All and Recent views.
C9_ActiveQueueContents ==
    priority_tickets # None =>
        /\ Range(priority_tickets[1]) =
              { t \in Range(parsed_tickets[1]) : ShouldQueue(t) }
        /\ Len(priority_tickets[1]) =
              Cardinality({ i \in DOMAIN parsed_tickets[1] : ShouldQueue(parsed_tickets[1][i]) })
        /\ \A t \in Range(parsed_tickets[1]) :
              ~ShouldQueue(t) /\ Len(parsed_tickets[1]) <= RecentLimit
                  => t \in Range(recent_tickets[1])

\* rank of a status in the order In Progress < Todo < In Review < Done
StatusRank(status) ==
    CASE status = "In Progress" -> 1
      [] status = "Todo"        -> 2
      [] status = "In Review"   -> 3
      [] status = "Done"        -> 4

\* C10: whenever the dashboard is generated the active queue is produced,
\* ordered by status rank and then by updated_at descending, and sorting it
\* again changes nothing.
C10_QueueOrderAlwaysProduced ==
    (pc = "done" \/ (pc = "failed" /\ stats # None)) =>
        /\ priority_tickets # None
        /\ \A i, j \in DOMAIN priority_tickets[1] :
              i < j =>
                LET a == priority_tickets[1][i]
                    b == priority_tickets[1][j]
                IN  \/ StatusRank(a.status) < StatusRank(b.status)
                    \/ /\ StatusRank(a.status) = StatusRank(b.status)
                       /\ a.updated_at.h >= b.updated_at.h
        /\ sort_queue(priority_tickets[1], tz) = priority_tickets[1]

\* C11: the Recent view has min(10, number of tickets) entries, never more
\* than 10, is non-increasing by created_at, and no ticket left out of it
\* was created later than a ticket in it.
C11_RecentViewNewestTen ==
    recent_tickets # None =>
        LET all  == parsed_tickets[1]
            view == recent_tickets[1]
        IN  /\ Len(view) <= 10
            /\ Len(view) = IF Len(all) < 10 THEN Len(all) ELSE 10
            /\ \A i, j \in DOMAIN view :
                  i < j => view[i].created_at.h >= view[j].created_at.h
            /\ Range(view) \subseteq Range(all)
            /\ Cardinality(Range(view)) = Len(view)
            /\ \A t \in Range(all) \ Range(view) :
                  \A v \in Range(view) : t.created_at.h <= v.created_at.h

C11_Witness_OlderTicketsCutOff ==
    /\ recent_tickets # None
    /\ Len(parsed_tickets[1]) = 11
    /\ Len(recent_tickets[1]) = 10
    /\ parsed_tickets[1][10] \notin Range(recent_tickets[1])
    /\ parsed_tickets[1][11] \in Range(recent_tickets[1])
    /\ recent_tickets[1][1].created_at.h > recent_tickets[1][10].created_at.h

\* the pairs << value, count >> list every value of the keys once, with the
\* number of its occurrences
CountsOf(pairs, keys) ==
    /\ { pairs[i][1] : i \in DOMAIN pairs } = Range(keys)
    /\ \A i, j \in DOMAIN pairs : pairs[i][1] = pairs[j][1] => i = j
    /\ \A i \in DOMAIN pairs :
          pairs[i][2] = Cardinality({ k \in DOMAIN keys : keys[k] = pairs[i][1] })

Descending(pairs) == \A i, j \in DOMAIN pairs : i < j => pairs[i][2] >= pairs[j][2]

\* C12: each of the five grouped counts of generate_statistics maps every
\* category value to its number of tickets (feature area over all tickets,
\* the others over the customer-attributed tickets) and lists the values in
\* descending order of count.
C12_GroupedCountsDescending ==
    stats # None =>
        LET all    == parsed_tickets[1]
            cust   == customer_tickets[1]
            waved  == PickIndices(cust, { i \in DOMAIN cust :
                                     cust[i].wave # None /\ cust[i].wave # Some("") })
        IN  /\ CountsOf(stats[1].by_feature_area, [i \in DOMAIN all |-> all[i].feature_area])
            /\ CountsOf(stats[1].by_source_label, [i \in DOMAIN cust |-> cust[i].source_label])
            /\ CountsOf(stats[1].by_wave, [i \in DOMAIN waved |-> waved[i].wave])
            /\ CountsOf(stats[1].by_source_type, [i \in DOMAIN cust |-> cust[i].source_type])
            /\ CountsOf(stats[1].by_priority, [i \in DOMAIN cust |-> cust[i].priority])
            /\ Descending(stats[1].by_feature_area)
            /\ Descending(stats[1].by_source_label)
            /\ Descending(stats[1].by_wave)
            /\ Descending(stats[1].by_source_type)
            /\ Descending(stats[1].by_priority)

\* days of the window of a time selector value
WindowDays(selector) ==
    CASE selector = "30" -> 30
      [] selector = "60" -> 60
      [] selector = "90" -> 90

\* the start of the window: the instant at which the clocks of the browser
\* showed the time of day of the chart's date, that many days earlier
WindowStart(selector) ==
    local_to_utc(chart_now + zone_offset(chart_zone, chart_now)
                     - 24 * WindowDays(selector), chart_zone)

\* the normalized ticket passes the two selectors at the date of the chart
PassesSelectors(t) ==
    /\ timeFilter = "all" \/ t.created_at.h >= WindowStart(timeFilter)
    /\ sourceFilter = "all" \/ t.source_label = sourceFilter

\* the chart as pairs of label and number; -1 stands for a count that is
\* no number
ChartNumbers(chart) ==
    [i \in DOMAIN chart |->
        << chart[i][1],
           IF chart[i][2].type = "number" THEN chart[i][2].n ELSE 0 - 1 >>]

\* C13: once the dataset is loaded the chart is the mapping from feature
\* area to count of the normalized tickets that pass the selectors, in
\* descending order of count; with both selectors on all it is the mapping
\* by_feature_area of generate_statistics (in the same order too, unless an
\* area name is a number, which the script's object lists first).
C13_ChartReproducesGrouping ==
    page_state = "loaded" /\ featureChart # None =>
        LET all     == parsed_tickets[1]
            passing == PickIndices(all, { i \in DOMAIN all : PassesSelectors(all[i]) })
            shown   == ChartNumbers(featureChart[1])
        IN  /\ CountsOf(shown, [i \in DOMAIN passing |-> passing[i].feature_area])
            /\ Descending(shown)
            /\ timeFilter = "all" /\ sourceFilter = "all" =>
                  /\ Range(shown) = Range(stats[1].by_feature_area)
                  /\ Len(shown) = Len(stats[1].by_feature_area)
                  /\ (\A i \in DOMAIN shown : ~is_array_index(shown[i][1]))
                        => shown = stats[1].by_feature_area

\* the issue of the loaded dataset passes the two selectors at the date of
\* the chart
IssuePassesSelectors(issue) ==
    /\ timeFilter = "all" \/ issue.createdAt.h >= WindowStart(timeFilter)
    /\ sourceFilter = "all" \/ issue.sourceLabel = sourceFilter

\* names that an empty object already has a property for
InheritedNames == PrototypeMethods \cup {"__proto__"}

\* C14: whatever selections came before, the chart on display is what a
\* fresh count of the loaded dataset under the current selector values
\* gives (the mapping from feature area to count in descending order, when
\* no area has an inherited name), and a change of a selector neither
\* modifies the loaded dataset nor fetches anything, from data.json or from
\* the remote source.
C14_ChartRecomputedFromScratch ==
    /\ [](featureChart # None =>
            LET passing == PickIndices(allIssues, { i \in DOMAIN allIssues :
                               IssuePassesSelectors(allIssues[i]) })
                areas   == [i \in DOMAIN passing |-> passing[i].featureArea]
            IN  /\ featureChart[1] \in sorted_entries(object_entries(
                                          count_areas(<< >>, areas, Len(areas))))
                /\ Range(areas) \cap InheritedNames = {} =>
                      /\ CountsOf(ChartNumbers(featureChart[1]), areas)
                      /\ Descending(ChartNumbers(featureChart[1])))
    /\ [][(timeFilter' # timeFilter \/ sourceFilter' # sourceFilter) =>
            /\ allIssues' = allIssues
            /\ data_fetches' = data_fetches
            /\ request_count' = request_count
            /\ json_issues' = json_issues]_vars

C14_Witness_AfterSeveralSelections ==
    /\ page_state = "loaded"
    /\ data_fetches = 1
    /\ timeFilter = "90"
    /\ sourceFilter = "sales"
    /\ Len(allIssues) = 2
    /\ allIssues[1].id = "FR-5"
    /\ allIssues[2].id = "FR-2"
    /\ chart_zone = NewYorkZone
    /\ featureChart = Some(<< << "7", JsNumber(1) >>,
                              << "constructor",
                                 JsString("function Object() { [native code] }1") >> >>)

\* the optional field is missing from the raw record or null in it
Absent(raw, field) == field \notin DOMAIN raw \/ raw[field] = None

\* C15: parse_ticket returns a ticket for every record in which optional
\* fields are missing or null, with the documented defaults: absent
\* customer without a description, No Project without a project, Unknown
\* feature area with neither project nor parent, unlabeled without labels.
C15_ParseTicketTotal ==
    pc # "parse" =>
        /\ parsed_tickets # None
        /\ error = None
        /\ LET raw == raw_issues[1][1]
               out == parsed_tickets[1][1]
           IN  /\ Absent(raw, "description") => out.customer = None
               /\ Absent(raw, "project") => out.project = "No Project"
               /\ Absent(raw, "project") /\ Absent(raw, "parent")
                     => out.feature_area = "Unknown"
               /\ Absent(raw, "labels") => out.source_label = "unlabeled"

\* The rules of source_type in their fixed order: keywords and value.
SourceTypeRules ==
    << [keywords |-> {"CSAT", "Wave"},                           value |-> "CSAT Survey"],
       [keywords |-> {"Usage", "Satisfaction"},                  value |-> "Usage Survey"],
       [keywords |-> {"Early Adopter", "Qualitative Research"},  value |-> "Early Adopter Research"],
       [keywords |-> {"Beta"},                                   value |-> "Beta Testing"],
       [keywords |-> {"Support", "Email"},                       value |-> "Direct Support"],
       [keywords |-> {"Internal"},                               value |-> "Internal"] >>

SourceRuleMatches(i, detail) ==
    \E k \in SourceTypeRules[i].keywords : Contains(k, detail)

MatchingSourceRules(detail) ==
    { i \in DOMAIN SourceTypeRules : SourceRuleMatches(i, detail) }

FirstSourceRule(detail) ==
    CHOOSE i \in MatchingSourceRules(detail) :
        \A j \in MatchingSourceRules(detail) : i <= j

\* The ticket's raw record with another list of labels.
WithLabelNames(raw, names) ==
    [raw EXCEPT !["labels"] =
        Some([nodes |-> Some([i \in DOMAIN names |-> [name |-> names[i]]])])]

\* C16: source_type is the value of the first rule, in the order CSAT/Wave,
\* Usage/Satisfaction, Early Adopter/Qualitative Research, Beta,
\* Support/Email, Internal, whose keyword is contained in source_detail, and
\* "Unknown" when source_detail is absent or no rule matches; the same record
\* with any other labels has the same source_type.
C16_SourceTypeFirstRuleWins ==
    parsed_tickets # None =>
        \A i \in DOMAIN parsed_tickets[1] :
            LET raw == raw_issues[1][i]
                out == parsed_tickets[1][i]
            IN  /\ out.source_detail = None => out.source_type = "Unknown"
                /\ out.source_detail # None =>
                     IF MatchingSourceRules(out.source_detail[1]) = {}
                     THEN out.source_type = "Unknown"
                     ELSE out.source_type =
                            SourceTypeRules[FirstSourceRule(out.source_detail[1])].value
                /\ \A l \in ParseLabelLists :
                     parse_ticket(WithLabelNames(raw, l), raw_issues[1]).source_type
                        = out.source_type

\* A labelled ticket whose source names the Internal, Support/Email and Beta
\* rules has been given the value of the earliest of them.
C16_Witness_BetaBeforeSupport ==
    /\ parsed_tickets # None
    /\ \E i \in DOMAIN parsed_tickets[1] :
         /\ parsed_tickets[1][i].source_detail = Some("Beta Internal Email")
         /\ Cardinality(MatchingSourceRules("Beta Internal Email")) = 3
         /\ parsed_tickets[1][i].source_label # "unlabeled"
         /\ parsed_tickets[1][i].source_type = "Beta Testing"

\* C17: a truncation is reported exactly when the source still reports
\* further pages after the 20th page request; a traversal whose final page is
\* page 20 or an earlier page ends without a truncation being reported.
C17_TruncationOnlyBeyondCeiling ==
    /\ truncated => (request_count = PageLimit /\ has_more)
    /\ (pc = "filter" /\ request_count = PageLimit /\ has_more) => truncated
    /\ final_page \in 1..PageLimit => ~truncated

\* C18: page requests are issued one at a time and chained by cursor: the
\* first request carries no cursor, each later request follows a response
\* that reported a further page and carries exactly the endCursor of that
\* response, which differs from the cursor of the request before, and the
\* issues collected are the pages concatenated in the order the source
\* returned them.
C18_CursorChainedSequentialPages ==
    /\ [](all_issues = served)
    /\ [][request_count' # request_count =>
            /\ pc = "page_loop"
            /\ request_count' = request_count + 1
            /\ request_count = 0 => after' = None
            /\ request_count >= 1 =>
                 /\ last_response # None
                 /\ ~FetchFailed(last_response[1])
                 /\ last_response[1].hasNextPage
                 /\ after' = last_response[1].endCursor
                 /\ after' # None
                 /\ after' # after]_vars

\* The third request has carried the second page's endCursor, and the
\* issues collected came with more than one page.
C18_Witness_ThirdRequestChained ==
    /\ request_count = 3
    /\ after = Some(EndCursorOf(2))
    /\ last_response # None
    /\ ~FetchFailed(last_response[1])
    /\ Len(all_issues) = MaxIssues
    /\ all_issues[1] # all_issues[2]
    /\ pc = "filter"

\* The rule table of feature_area as the specification lists it: a rule
\* matches a lower-cased parent title that contains one of its `any`
\* keywords, or all of its `all` keywords.
FeatureAreaRules ==
    << [any |-> {"smart home", "homekit", "integration"}, all |-> {},
        value |-> "Smart Home Integrations"],
       [any |-> {"thermal", "comfort"}, all |-> {}, value |-> "Thermals & Comfort"],
       [any |-> {"schedule"}, all |-> {}, value |-> "Schedules"],
       [any |-> {}, all |-> {"app", "ux"}, value |-> "All things App"],
       [any |-> {"hardware"}, all |-> {}, value |-> "Hardware Requests"],
       [any |-> {"dial"}, all |-> {}, value |-> "All things Dial"],
       [any |-> {"energy", "usage"}, all |-> {}, value |-> "Energy + Usage"],
       [any |-> {"auto-away", "away"}, all |-> {}, value |-> "Auto-Away"],
       [any |-> {"mode", "control"}, all |-> {}, value |-> "Modes & Controls"],
       [any |-> {"lighting"}, all |-> {}, value |-> "Lighting"],
       [any |-> {"device", "pairing"}, all |-> {},
        value |-> "Device management & operation"],
       [any |-> {"partner", "tooling"}, all |-> {}, value |-> "Partner Tooling"] >>

AreaRuleMatches(rule, title) ==
    IF rule.all = {}
    THEN \E k \in rule.any : InChars(k, lower(title))
    ELSE \A k \in rule.all : InChars(k, lower(title))

MatchingAreaRules(rules, title) ==
    { i \in DOMAIN rules : AreaRuleMatches(rules[i], title) }

FirstAreaRule(rules, title) ==
    CHOOSE i \in MatchingAreaRules(rules, title) :
        \A j \in MatchingAreaRules(rules, title) : i <= j

\* feature_area of a raw record under a rule table
AreaUnder(rules, raw) ==
    LET project == raw["project"]
        parent  == raw["parent"]
        default == IF project = None \/ project[1].name = "" THEN "Unknown"
                   ELSE project[1].name
    IN  IF parent = None THEN default
        ELSE IF MatchingAreaRules(rules, parent[1].title) = {} THEN default
        ELSE rules[FirstAreaRule(rules, parent[1].title)].value

\* C19: feature_area is, for a ticket with a parent, the category of the
\* first rule of the listed table whose keyword occurs in the lower-cased
\* parent title, whatever the project; without a parent or without a matching
\* keyword it is the project name, or "Unknown" when there is no project.
C19_FeatureAreaFollowsRuleTable ==
    parsed_tickets # None =>
        \A i \in DOMAIN parsed_tickets[1] :
            parsed_tickets[1][i].feature_area
                = AreaUnder(FeatureAreaRules, raw_issues[1][i])

\* The rule table with the two keywords the listed table leaves out:
\* "thermware" in the thermal rule and "light" in the lighting rule.
FeatureAreaRulesWithAllKeywords ==
    [FeatureAreaRules EXCEPT ![2].any = @ \cup {"thermware"},
                             ![10].any = @ \cup {"light"}]

\* C19, amended: feature_area follows the rule table with thermal/comfort/
\* thermware and lighting/light as keywords of the thermal and lighting
\* rules: with a parent, it is the category of the first rule in the listed
\* order whose keyword occurs in the lower-cased parent title, overriding the
\* project name; otherwise it is the project name, or "Unknown" when there
\* is no project or its name is empty.
C19_FeatureAreaFollowsFullRuleTable ==
    parsed_tickets # None =>
        \A i \in DOMAIN parsed_tickets[1] :
            parsed_tickets[1][i].feature_area
                = AreaUnder(FeatureAreaRulesWithAllKeywords, raw_issues[1][i])

\* A ticket of a project whose parent title names the hardware rule and the
\* dial rule has been given the category of the hardware rule.
C19_Witness_ParentOverridesProject ==
    /\ parsed_tickets # None
    /\ \E i \in DOMAIN parsed_tickets[1] :
         /\ raw_issues[1][i]["project"] = MobileApp
         /\ raw_issues[1][i]["parent"] # None
         /\ raw_issues[1][i]["parent"][1].title = "Hardware dial"
         /\ Cardinality(MatchingAreaRules(FeatureAreaRulesWithAllKeywords,
                                          "Hardware dial")) = 2
         /\ parsed_tickets[1][i].feature_area = "Hardware Requests"

=============================================================================
